---- MODULE Spec2Model ----
(***************************************************************************)
(* Model of the HAProxy part of the agent: plugins/haproxy_client.py       *)
(* (HAProxyClient) and controllers/haproxy_controller.py                   *)
(* (HAProxyController), with config.py supplying the configuration.        *)
(*                                                                         *)
(* A Python str is a sequence of one-character strings, so that strip,     *)
(* split, startswith, lower and the substring test are computed character  *)
(* by character as the code computes them.                                 *)
(*                                                                         *)
(* control_manager.py (ControlManager), discovery.py (DiscoveryManager)    *)
(* and the request handler of server.py are modelled beside them.          *)
(*                                                                         *)
(* The specifications of the module:                                       *)
(*   Spec          the controller: construction of the instance registry   *)
(*                 from the configuration, then requests served from it;   *)
(*   ClientSpec    one constructed client called directly, one operation   *)
(*                 at a time;                                              *)
(*   ConstructSpec HAProxyClient.__init__ on one address string;           *)
(*   CoreSpec      a controller with one registered instance, and its      *)
(*                 client, each called one operation at a time;            *)
(*   TransportSpec _send_command statement by statement, run by several    *)
(*                 threads of the HTTP layer against one client;           *)
(*   ManagerSpec   ControlManager loading the controller files;            *)
(*   DiscoverySpec DiscoveryManager loading the plugin files, then         *)
(*                 run_discovery and the application list of server.py;    *)
(*   ServerSpec    the controllers loaded at startup, then GET and POST    *)
(*                 requests of server.py dispatched to them.               *)
(***************************************************************************)
EXTENDS Integers, Sequences, FiniteSets, TLC

(***************************************************************************)
(* Bounds of the model.                                                    *)
(***************************************************************************)
\* instance definitions in one HAPROXY_INSTANCES string
MaxEntries == 2
\* non-empty chunks the peer sends before EOF in one exchange
MaxChunks == 2
\* threads of the HTTP layer calling the same client at once
NumThreads == 2

\* data rows in a stats table
MaxRows == 3

\* *_controller.py files in the controllers directory
MaxFiles == 2

(***************************************************************************)
(* Python str operations.                                                  *)
(***************************************************************************)
Whitespace == {" ", "\n", "\t"}

\* s[i:j] with Python's 0-based, end-exclusive indices given as 1-based
\* inclusive bounds (empty when hi < lo).
Slice(s, lo, hi) == IF hi < lo THEN <<>> ELSE SubSeq(s, lo, hi)

\* str.strip()
Strip(s) ==
    LET keep == {i \in 1..Len(s) : s[i] \notin Whitespace}
    IN  IF keep = {} THEN <<>>
        ELSE LET lo == CHOOSE i \in keep : \A j \in keep : i <= j
                 hi == CHOOSE i \in keep : \A j \in keep : j <= i
             IN  SubSeq(s, lo, hi)

\* str.startswith(p)
StartsWith(s, p) == Len(s) >= Len(p) /\ SubSeq(s, 1, Len(p)) = p

\* c in s, for a one-character c
HasChar(s, c) == \E i \in 1..Len(s) : s[i] = c

\* index of the first / last occurrence of the character c (which occurs)
FirstIndex(s, c) == CHOOSE i \in 1..Len(s) : s[i] = c /\ \A j \in 1..(i-1) : s[j] # c
LastIndex(s, c) == CHOOSE i \in 1..Len(s) : s[i] = c /\ \A j \in (i+1)..Len(s) : s[j] # c

\* str.split(c): always at least one piece, empty pieces kept
RECURSIVE Split(_, _)
Split(s, c) ==
    IF ~HasChar(s, c) THEN <<s>>
    ELSE LET i == FirstIndex(s, c)
         IN  <<Slice(s, 1, i-1)>> \o Split(Slice(s, i+1, Len(s)), c)

\* sub in s, for a string sub
Contains(s, sub) ==
    \E i \in 1..(Len(s) - Len(sub) + 1) : SubSeq(s, i, i + Len(sub) - 1) = sub

LowerChar(c) ==
    CASE c = "E" -> "e" [] c = "R" -> "r" [] c = "O" -> "o" [] c = "I" -> "i"
      [] c = "N" -> "n" [] c = "V" -> "v" [] c = "A" -> "a" [] c = "L" -> "l"
      [] c = "D" -> "d" [] OTHER -> c

\* str.lower()
Lower(s) == [i \in 1..Len(s) |-> LowerChar(s[i])]

\* the concatenation of a sequence of strings
RECURSIVE Concat(_)
Concat(ss) == IF ss = <<>> THEN <<>> ELSE Head(ss) \o Concat(Tail(ss))

\* sep.join(ss)
RECURSIVE Join(_, _)
Join(ss, sep) ==
    IF ss = <<>> THEN <<>>
    ELSE IF Len(ss) = 1 THEN ss[1]
    ELSE ss[1] \o sep \o Join(Tail(ss), sep)

\* the set of the elements of a sequence
Range(seq) == {seq[i] : i \in 1..Len(seq)}

\* all sequences over S of length lo..hi
SeqsOf(S, lo, hi) == UNION {[1..n -> S] : n \in lo..hi}

\* "..." literals of the code, as character sequences
S_ipv4 == <<"i", "p", "v", "4", "@">>
S_default == <<"d", "e", "f", "a", "u", "l", "t">>
S_Version == <<"V", "e", "r", "s", "i", "o", "n">>
S_error == <<"e", "r", "r", "o", "r">>
S_invalid == <<"i", "n", "v", "a", "l", "i", "d">>
S_backends == <<"b", "a", "c", "k", "e", "n", "d", "s">>
S_servers == <<"s", "e", "r", "v", "e", "r", "s">>
S_action == <<"a", "c", "t", "i", "o", "n">>

(***************************************************************************)
(* HAProxyClient: address parsing and construction.                        *)
(***************************************************************************)
Digits == {"0", "1", "2", "3", "4", "5", "6", "7", "8", "9"}

DigitVal(c) ==
    CASE c = "0" -> 0 [] c = "1" -> 1 [] c = "2" -> 2 [] c = "3" -> 3
      [] c = "4" -> 4 [] c = "5" -> 5 [] c = "6" -> 6 [] c = "7" -> 7
      [] c = "8" -> 8 [] c = "9" -> 9

RECURSIVE DecimalValue(_)
DecimalValue(ds) ==
    IF ds = <<>> THEN 0
    ELSE 10 * DecimalValue(SubSeq(ds, 1, Len(ds) - 1)) + DigitVal(ds[Len(ds)])

\* int(text): surrounding whitespace is ignored, one sign is allowed, and the
\* digits may be grouped by single underscores; anything else is ValueError.
PyInt(text) ==
    LET t == Strip(text)
        signed == t # <<>> /\ t[1] \in {"+", "-"}
        body == IF signed THEN Tail(t) ELSE t
        wellFormed ==
            /\ body # <<>>
            /\ \A i \in 1..Len(body) : body[i] \in Digits \cup {"_"}
            /\ \A i \in 1..Len(body) :
                 body[i] = "_" =>
                   /\ i > 1 /\ i < Len(body)
                   /\ body[i-1] \in Digits /\ body[i+1] \in Digits
        digits == SelectSeq(body, LAMBDA c : c \in Digits)
        magnitude == DecimalValue(digits)
    IN  IF ~wellFormed THEN [ok |-> FALSE, value |-> 0]
        ELSE [ok |-> TRUE,
              value |-> IF signed /\ t[1] = "-" THEN 0 - magnitude ELSE magnitude]

PortMin == 1
PortMax == 65535

\* str(pathlib.Path(text)) on POSIX: runs of "/" collapse, "." components and
\* a trailing "/" are dropped, exactly two leading "/" are kept, "" is ".".
PathStr(text) ==
    LET lead == IF \A i \in 1..Len(text) : text[i] = "/" THEN Len(text)
                ELSE (CHOOSE i \in 1..Len(text) :
                        text[i] # "/" /\ \A j \in 1..(i-1) : text[j] = "/") - 1
        root == IF lead = 0 THEN <<>> ELSE IF lead = 2 THEN <<"/", "/">> ELSE <<"/">>
        parts == SelectSeq(Split(text, "/"), LAMBDA p : p # <<>> /\ p # <<".">>)
    IN  IF root = <<>> /\ parts = <<>> THEN <<".">>
        ELSE root \o Join(parts, <<"/">>)

NoAddress == [ok |-> FALSE, type |-> "none", path |-> <<>>, host |-> <<>>, port |-> 0]

\* HAProxyClient._parse_socket_path without the strip() of line 75
ParseSocketPathUnstripped(socket_path) ==
    LET sp == socket_path
    IN  IF StartsWith(sp, S_ipv4)
        THEN LET address_str == Slice(sp, 6, Len(sp))
             IN  IF ~HasChar(address_str, ":") THEN NoAddress
                 ELSE LET k == LastIndex(address_str, ":")
                          host == Slice(address_str, 1, k - 1)
                          port == PyInt(Slice(address_str, k + 1, Len(address_str)))
                      IN  IF port.ok /\ PortMin <= port.value /\ port.value <= PortMax
                          THEN [ok |-> TRUE, type |-> "tcp4", path |-> <<>>,
                                host |-> host, port |-> port.value]
                          ELSE NoAddress
        ELSE [ok |-> TRUE, type |-> "unix", path |-> PathStr(sp),
              host |-> <<>>, port |-> 0]

\* HAProxyClient._parse_socket_path: ok = FALSE stands for the
\* HAProxyConnectionError it raises.
ParseSocketPath(socket_path) ==
    LET sp == Strip(socket_path)
    IN  IF StartsWith(sp, S_ipv4)
        THEN LET address_str == Slice(sp, 6, Len(sp))
             IN  IF ~HasChar(address_str, ":") THEN NoAddress
                 ELSE LET k == LastIndex(address_str, ":")
                          host == Slice(address_str, 1, k - 1)
                          port == PyInt(Slice(address_str, k + 1, Len(address_str)))
                      IN  IF port.ok /\ PortMin <= port.value /\ port.value <= PortMax
                          THEN [ok |-> TRUE, type |-> "tcp4", path |-> <<>>,
                                host |-> host, port |-> port.value]
                          ELSE NoAddress
        ELSE [ok |-> TRUE, type |-> "unix", path |-> PathStr(sp),
              host |-> <<>>, port |-> 0]

\* What the filesystem holds at a Unix socket path when a client is built.
FsKinds == {"socket", "missing", "notsocket"}

\* HAProxyClient._validate_socket: TRUE when it returns, FALSE when it raises
\* HAProxyConnectionError.
ValidateSocket(addr, fs) ==
    IF addr.type = "unix" THEN fs = "socket"
    ELSE addr.type = "tcp4"

NoClient == [socket_path_str |-> <<>>, timeout |-> 0, socket_type |-> "none",
             path |-> <<>>, host |-> <<>>, port |-> 0]

\* HAProxyClient.__init__: ok = FALSE stands for the HAProxyConnectionError of
\* the parse or of the validation.
NewClient(socket_path, timeout, fs) ==
    LET addr == ParseSocketPath(socket_path)
    IN  IF addr.ok /\ ValidateSocket(addr, fs)
        THEN [ok |-> TRUE, parsed |-> TRUE,
              client |-> [socket_path_str |-> socket_path, timeout |-> timeout,
                          socket_type |-> addr.type, path |-> addr.path,
                          host |-> addr.host, port |-> addr.port]]
        ELSE [ok |-> FALSE, parsed |-> addr.ok, client |-> NoClient]

(***************************************************************************)
(* HAProxyClient: one exchange with HAProxy, and the operations on it.     *)
(*                                                                         *)
(* What the peer and the network do in one exchange is an outcome:         *)
(*   ok       the peer answered `response` and closed;                     *)
(*   timeout  connect, sendall or recv raised socket.timeout;              *)
(*   refused  they raised another socket.error;                            *)
(*   decode   the bytes received are not UTF-8.                            *)
(* A call's result is [exc, value, sent]: exc = "none" when it returns     *)
(* value, else the exception it raises; sent lists the commands handed to  *)
(* _send_command, one entry per call of it.                                *)
(***************************************************************************)
VALID_STATES == <<"ready", "drain", "maint">>

InList(x, list) == \E i \in 1..Len(list) : list[i] = x

FailureKinds == {"timeout", "refused", "decode"}

\* the outcomes whose response is made of at most MaxChunks of the chunks
Outcomes(chunks) ==
    {[kind |-> "ok", response |-> Concat(cs)] : cs \in SeqsOf(chunks, 0, MaxChunks)}
      \cup {[kind |-> k, response |-> <<>>] : k \in FailureKinds}

\* HAProxyClient._send_command, start to end.
SendCommand(client, command, outcome) ==
    LET raised(e) == [exc |-> e, value |-> <<>>, sent |-> <<command>>]
    IN  IF client.socket_type \notin {"unix", "tcp4"}
          THEN raised("HAProxyCommandError")
        ELSE IF client.timeout < 0
          THEN raised("HAProxyCommandError")
        ELSE IF outcome.kind \in {"timeout", "refused"}
          THEN raised("HAProxyConnectionError")
        ELSE IF outcome.kind = "decode"
          THEN raised("HAProxyCommandError")
        ELSE [exc |-> "none", value |-> outcome.response, sent |-> <<command>>]

\* the dict get_info builds: a later line replaces an earlier one's key
InfoDict(response) ==
    LET lines == SelectSeq(Split(Strip(response), "\n"), LAMBDA l : HasChar(l, ":"))
        key(l) == Strip(Slice(l, 1, FirstIndex(l, ":") - 1))
        val(l) == Strip(Slice(l, FirstIndex(l, ":") + 1, Len(l)))
        keys == {key(lines[i]) : i \in 1..Len(lines)}
    IN  [k \in keys |->
           LET last == CHOOSE i \in 1..Len(lines) :
                         key(lines[i]) = k
                         /\ \A j \in (i+1)..Len(lines) : key(lines[j]) # k
           IN  val(lines[last])]

\* HAProxyClient.get_info
GetInfo(client, outcome) ==
    LET r == SendCommand(client, <<"show info">>, outcome)
    IN  IF r.exc # "none" THEN r
        ELSE [exc |-> "none", value |-> InfoDict(r.value), sent |-> r.sent]

\* HAProxyClient.health_check
HealthCheck(client, outcome) ==
    LET r == GetInfo(client, outcome)
    IN  [exc |-> "none",
         value |-> IF r.exc # "none" THEN FALSE ELSE S_Version \in DOMAIN r.value,
         sent |-> r.sent]

\* the test of lines 374-376 without lower()
IsErrorResponseCaseSensitive(response) ==
    /\ Strip(response) # <<>>
    /\ \/ Contains(response, S_error)
       \/ Contains(response, S_invalid)

\* the test of lines 374-376 looking for 'error' alone
IsErrorResponseErrorOnly(response) ==
    /\ Strip(response) # <<>>
    /\ Contains(Lower(response), S_error)

\* the test of lines 374-376 on the response to "set server"
IsErrorResponse(response) ==
    /\ Strip(response) # <<>>
    /\ \/ Contains(Lower(response), S_error)
       \/ Contains(Lower(response), S_invalid)

\* HAProxyClient.set_server_state with the check of the state left to HAProxy
SetServerStateUnvalidated(client, backend_name, server_name, state, outcome) ==
    LET command == <<"set server", backend_name, server_name, state>>
        r == SendCommand(client, command, outcome)
    IN  IF r.exc = "none" /\ ~IsErrorResponse(r.value) /\ InList(state, VALID_STATES)
        THEN [exc |-> "none", value |-> TRUE, sent |-> r.sent]
        ELSE [exc |-> IF InList(state, VALID_STATES)
                      THEN "HAProxyCommandError" ELSE "ValueError",
              value |-> FALSE, sent |-> r.sent]

\* HAProxyClient.set_server_state asking for the table of "show stat" before
\* it sends the command
SetServerStateQueryingFirst(client, backend_name, server_name, state, outcome) ==
    IF ~InList(state, VALID_STATES)
    THEN [exc |-> "ValueError", value |-> FALSE, sent |-> <<>>]
    ELSE LET command == <<"set server", backend_name, server_name, state>>
             r == SendCommand(client, command, outcome)
             both == << <<"show stat">> >> \o r.sent
         IN  IF r.exc = "none" /\ ~IsErrorResponse(r.value)
             THEN [exc |-> "none", value |-> TRUE, sent |-> both]
             ELSE [exc |-> "HAProxyCommandError", value |-> FALSE, sent |-> both]

\* HAProxyClient.set_server_state
SetServerState(client, backend_name, server_name, state, outcome) ==
    IF ~InList(state, VALID_STATES)
    THEN [exc |-> "ValueError", value |-> FALSE, sent |-> <<>>]
    ELSE LET command == <<"set server", backend_name, server_name, state>>
             r == SendCommand(client, command, outcome)
         IN  IF r.exc = "none"
             THEN IF IsErrorResponse(r.value)
                  THEN [exc |-> "HAProxyCommandError", value |-> FALSE, sent |-> r.sent]
                  ELSE [exc |-> "none", value |-> TRUE, sent |-> r.sent]
             ELSE \* `except HAProxyCommandError: raise`, and `except Exception`
                  \* turns every other exception into HAProxyCommandError
                  [exc |-> "HAProxyCommandError", value |-> FALSE, sent |-> r.sent]

(***************************************************************************)
(* The stats table: _parse_csv_response and the operations that read it.   *)
(* A dict is a function from its keys; entry.get(k, '') is DictGet.        *)
(***************************************************************************)
S_pxname == <<"p", "x", "n", "a", "m", "e">>
S_svname == <<"s", "v", "n", "a", "m", "e">>
S_BACKEND == <<"B", "A", "C", "K", "E", "N", "D">>
S_FRONTEND == <<"F", "R", "O", "N", "T", "E", "N", "D">>
S_name == <<"n", "a", "m", "e">>
S_status == <<"s", "t", "a", "t", "u", "s">>

\* the ASCII characters " " (32) to "_" (95) and "a" (97) to "z" (122), in
\* code order
AsciiLow ==
    <<" ", "!", "\"", "#", "$", "%", "&", "'", "(", ")", "*", "+",
      ",", "-", ".", "/", "0", "1", "2", "3", "4", "5", "6", "7",
      "8", "9", ":", ";", "<", "=", ">", "?", "@", "A", "B", "C",
      "D", "E", "F", "G", "H", "I", "J", "K", "L", "M", "N", "O",
      "P", "Q", "R", "S", "T", "U", "V", "W", "X", "Y", "Z", "[",
      "\\", "]", "^", "_">>

AsciiLetters ==
    <<"a", "b", "c", "d", "e", "f", "g", "h", "i", "j", "k", "l", "m",
      "n", "o", "p", "q", "r", "s", "t", "u", "v", "w", "x", "y", "z">>

\* ord(c)
Ord(c) ==
    IF \E i \in 1..Len(AsciiLetters) : AsciiLetters[i] = c
    THEN 96 + CHOOSE i \in 1..Len(AsciiLetters) : AsciiLetters[i] = c
    ELSE 31 + CHOOSE i \in 1..Len(AsciiLow) : AsciiLow[i] = c

\* a < b for two str: by the first differing character, a proper prefix first
StrLess(a, b) ==
    \E k \in 1..Len(b) :
      /\ \A i \in 1..(k-1) : i <= Len(a) /\ a[i] = b[i]
      /\ k > Len(a) \/ Ord(a[k]) < Ord(b[k])

\* sorted(list(S)) for a set of str
RECURSIVE Sorted(_)
Sorted(S) ==
    IF S = {} THEN <<>>
    ELSE LET least == CHOOSE x \in S : \A y \in S \ {x} : StrLess(x, y)
         IN  <<least>> \o Sorted(S \ {least})

\* [v.strip() for v in fields]
StripAll(fields) == [i \in 1..Len(fields) |-> Strip(fields[i])]

\* dict(zip(keys, values)): pairs up to the shorter length, a repeated key
\* keeping its last value
ZipDict(keys, values) ==
    LET n == IF Len(keys) < Len(values) THEN Len(keys) ELSE Len(values)
    IN  [k \in {keys[i] : i \in 1..n} |->
           values[CHOOSE i \in 1..n :
                    keys[i] = k /\ \A j \in (i+1)..n : keys[j] # k]]

\* entry.get(key, '')
DictGet(entry, key) == IF key \in DOMAIN entry THEN entry[key] ELSE <<>>

\* the headers of the table: header_line[2:] split at the commas
Headers(header_line) ==
    StripAll(Split(Slice(header_line, 3, Len(header_line)), ","))

\* the test of lines 230-238 without the comparison of the field counts
KeptRowAnyCount(line, headers) ==
    /\ line # <<>>
    /\ ~StartsWith(line, <<"#">>)

\* the test of lines 230-238: the line is a data row with as many fields as
\* there are headers
KeptRow(line, headers) ==
    /\ line # <<>>
    /\ ~StartsWith(line, <<"#">>)
    /\ Len(Split(line, ",")) = Len(headers)

\* HAProxyClient._parse_csv_response
ParseCsvResponse(response) ==
    LET lines == Split(Strip(response), "\n")
        header_line == lines[1]
    IN  IF ~StartsWith(header_line, <<"#">>)
        THEN <<>>
        ELSE LET rows == SelectSeq(Tail(lines),
                                   LAMBDA line : KeptRow(line, Headers(header_line)))
             IN  [i \in 1..Len(rows) |->
                    ZipDict(Headers(header_line), StripAll(Split(rows[i], ",")))]

\* the fields get_backend_servers copies under their own names
ServerFields ==
    { S_status,
      <<"w", "e", "i", "g", "h", "t">>,
      <<"c", "h", "e", "c", "k", "_", "s", "t", "a", "t", "u", "s">>,
      <<"c", "h", "e", "c", "k", "_", "d", "u", "r", "a", "t", "i", "o", "n">>,
      <<"l", "a", "s", "t", "_", "c", "h", "g">>,
      <<"d", "o", "w", "n", "t", "i", "m", "e">>,
      <<"a", "d", "d", "r">>,
      <<"c", "o", "o", "k", "i", "e">> }

\* server_info of lines 321-331
ServerInfo(entry) ==
    [k \in ServerFields \cup {S_name} |->
       IF k = S_name THEN DictGet(entry, S_svname) ELSE DictGet(entry, k)]

\* the entries with svname == 'BACKEND' (line 290)
IsBackendEntry(entry) == DictGet(entry, S_svname) = S_BACKEND

\* the test of line 319
IsServerOf(entry, backend_name) ==
    /\ DictGet(entry, S_pxname) = backend_name
    /\ DictGet(entry, S_svname) \notin {S_BACKEND, S_FRONTEND}

\* HAProxyClient.get_backends without set() and sorted(): the names in the
\* order of the table
GetBackendsTableOrder(client, outcome) ==
    LET r == SendCommand(client, <<"show stat">>, outcome)
    IN  IF r.exc # "none" THEN r
        ELSE [exc |-> "none",
              value |-> LET hits == SelectSeq(ParseCsvResponse(r.value), IsBackendEntry)
                        IN  [i \in 1..Len(hits) |-> DictGet(hits[i], S_pxname)],
              sent |-> r.sent]

\* HAProxyClient.get_backends asking a second time when the first
\* request failed
GetBackendsRetrying(client, outcome) ==
    LET r == SendCommand(client, <<"show stat">>, outcome)
    IN  IF r.exc # "none"
        THEN [r EXCEPT !.sent = @ \o SendCommand(client, <<"show stat">>, outcome).sent]
        ELSE [exc |-> "none",
              value |-> Sorted({DictGet(e, S_pxname) :
                                e \in {x \in Range(ParseCsvResponse(r.value)) :
                                         IsBackendEntry(x)}}),
              sent |-> r.sent]

\* HAProxyClient.get_backends
GetBackends(client, outcome) ==
    LET r == SendCommand(client, <<"show stat">>, outcome)
    IN  IF r.exc # "none" THEN r
        ELSE [exc |-> "none",
              value |-> Sorted({DictGet(e, S_pxname) :
                                e \in {x \in Range(ParseCsvResponse(r.value)) :
                                         IsBackendEntry(x)}}),
              sent |-> r.sent]

\* HAProxyClient.get_backend_servers with line 319 testing pxname alone
GetBackendServersWithAggregates(client, backend_name, outcome) ==
    LET r == SendCommand(client, <<"show stat">>, outcome)
    IN  IF r.exc # "none" THEN r
        ELSE [exc |-> "none",
              value |-> LET of == SelectSeq(ParseCsvResponse(r.value),
                                            LAMBDA e : DictGet(e, S_pxname) = backend_name)
                        IN  [i \in 1..Len(of) |-> ServerInfo(of[i])],
              sent |-> r.sent]

\* HAProxyClient.get_backend_servers
GetBackendServers(client, backend_name, outcome) ==
    LET r == SendCommand(client, <<"show stat">>, outcome)
    IN  IF r.exc # "none" THEN r
        ELSE [exc |-> "none",
              value |-> LET of == SelectSeq(ParseCsvResponse(r.value),
                                            LAMBDA e : IsServerOf(e, backend_name))
                        IN  [i \in 1..Len(of) |-> ServerInfo(of[i])],
              sent |-> r.sent]

\* Optional[Dict]: the server found, or None
NoServer == [found |-> FALSE, server |-> <<>>]

\* HAProxyClient.get_server_state
GetServerState(client, backend_name, server_name, outcome) ==
    LET r == GetBackendServers(client, backend_name, outcome)
    IN  IF r.exc # "none" THEN r
        ELSE [exc |-> "none",
              value |-> LET hits == SelectSeq(r.value,
                                              LAMBDA sv : sv[S_name] = server_name)
                        IN  IF hits = <<>> THEN NoServer
                            ELSE [found |-> TRUE, server |-> hits[1]],
              sent |-> r.sent]

(***************************************************************************)
(* ControlManager: the controllers loaded from the files.                  *)
(*                                                                         *)
(* self.controllers is a dict: here the sequence of its items in insertion *)
(* order, each [name, instance].  An instance is told from every other by  *)
(* the file and the class it was made from.  A class of a file is          *)
(* [cls, name, raises]: its name as a member of the module, what get_name  *)
(* of its instances returns, and whether making the instance or asking     *)
(* its name raises.                                                        *)
(***************************************************************************)
\* lines 81-90 with the test of line 81 left out: the assignment of line 89
\* alone, which replaces the value of a key the dict already has
RegisterControllerOverwriting(manager, instance, controller_name) ==
    LET had == {i \in 1..Len(manager.controllers) :
                  manager.controllers[i].name = controller_name}
        item == [name |-> controller_name, instance |-> instance]
    IN  [controllers |-> IF had = {} THEN Append(manager.controllers, item)
                         ELSE [i \in 1..Len(manager.controllers) |->
                                 IF i \in had THEN item ELSE manager.controllers[i]],
         log |-> Append(manager.log,
                        [event |-> "loaded", name |-> controller_name, instance |-> instance])]

\* lines 81-90: a name the dict has is skipped with a warning, another is
\* registered
RegisterController(manager, instance, controller_name) ==
    IF \E i \in 1..Len(manager.controllers) : manager.controllers[i].name = controller_name
    THEN [manager EXCEPT !.log = Append(@, [event |-> "duplicate", name |-> controller_name,
                                            instance |-> instance])]
    ELSE [controllers |-> Append(manager.controllers,
                                 [name |-> controller_name, instance |-> instance]),
          log |-> Append(manager.log,
                         [event |-> "loaded", name |-> controller_name, instance |-> instance])]

\* the body of the loop of line 70 for one controller class: lines 75-93
LoadClass(manager, file, class) ==
    IF class.raises
    THEN [manager EXCEPT !.log = Append(@, [event |-> "init_error", name |-> "",
                                            instance |-> [file |-> file, cls |-> class.cls]])]
    ELSE RegisterController(manager, [file |-> file, cls |-> class.cls], class.name)

\* the loop of line 70 over the controller classes inspect.getmembers yields
RECURSIVE LoadMembers(_, _, _)
LoadMembers(manager, file, members) ==
    IF members = <<>> THEN manager
    ELSE LoadMembers(LoadClass(manager, file, Head(members)), file, Tail(members))

\* one round of the loop of _load_controllers, lines 38-41, on the file-th
\* file: _load_controller_from_file, or the record of what exec_module raised
LoadControllerFromFile(manager, file, module) ==
    IF module.broken
    THEN [manager EXCEPT !.log = Append(@, [event |-> "load_error", name |-> "",
                                            instance |-> [file |-> file, cls |-> ""]])]
    ELSE LoadMembers(manager, file, module.members)

(***************************************************************************)
(* DiscoveryManager and the application list.                              *)
(*                                                                         *)
(* A discoverer class of a plugin file is [cls, raises]: its name as a     *)
(* member of the module and whether making its instance raises.  An        *)
(* instance is [file, cls].  An ApplicationInfo is [name, metadata], the   *)
(* name telling the plugin and the place in its list.                      *)
(***************************************************************************)
\* the body of the loop of line 42 for the members that are discoverer
\* classes: line 45, where a constructor that raises ends the loop
RECURSIVE LoadDiscoverers(_, _, _)
LoadDiscoverers(plugins, file, members) ==
    IF members = <<>> THEN plugins
    ELSE IF Head(members).raises THEN [plugins EXCEPT !.raised = TRUE]
    ELSE LoadDiscoverers(
           [plugins EXCEPT !.discoverers = Append(@, [file |-> file, cls |-> Head(members).cls])],
           file, Tail(members))

\* one round of the loop of line 34, lines 35-45: nothing catches what
\* exec_module or a constructor raises
LoadPluginFile(found, file, module) ==
    IF module.broken THEN [discoverers |-> found, raised |-> TRUE]
    ELSE LoadDiscoverers([discoverers |-> found, raised |-> FALSE], file, module.members)

\* the metadata the records of a plugin carry: docker_discoverer.py line 210,
\* eureka_discoverer.py line 140, and svc_app_discoverer.py, which sets no
\* "source"
MetadataOf(cls) ==
    CASE cls = "DockerDiscoverer" -> [source |-> "docker", pid |-> "7"]
      [] cls = "EurekaDiscoverer" -> [source |-> "eureka", ip |-> "h"]
      [] OTHER -> [pid |-> "7"]

\* what discover() of the i-th discoverer returns when it does not raise
AppsOf(i, cls) ==
    [k \in 1..(IF cls = "EurekaDiscoverer" THEN 1 ELSE 2) |->
       [name |-> <<i, k>>, metadata |-> MetadataOf(cls)]]

\* run_discovery stopped by the first discover() that raises
RECURSIVE DiscoverAborting(_, _, _, _)
DiscoverAborting(found, raising, i, acc) ==
    IF i > Len(found) THEN acc
    ELSE IF i \in raising
      THEN [calls |-> Append(acc.calls, i), apps |-> acc.apps, exc |-> "Exception"]
    ELSE DiscoverAborting(found, raising, i + 1,
                          [calls |-> Append(acc.calls, i),
                           apps |-> acc.apps \o AppsOf(i, found[i].cls), exc |-> "none"])

RunDiscoveryAborting(found, raising) ==
    DiscoverAborting(found, raising, 1, [calls |-> <<>>, apps |-> <<>>, exc |-> "none"])

\* the loop of run_discovery from the i-th discoverer on, lines 50-55
RECURSIVE Discover(_, _, _, _)
Discover(found, raising, i, acc) ==
    IF i > Len(found) THEN acc
    ELSE Discover(found, raising, i + 1,
                  [calls |-> Append(acc.calls, i),
                   apps |-> IF i \in raising THEN acc.apps
                            ELSE acc.apps \o AppsOf(i, found[i].cls),
                   exc |-> "none"])

\* DiscoveryManager.run_discovery, the discoverers in `raising` raising: the
\* discover() calls made, the list returned, and what escaped
RunDiscovery(found, raising) ==
    Discover(found, raising, 1, [calls |-> <<>>, apps |-> <<>>, exc |-> "none"])

\* app.metadata.get("source", "unknown"), server.py line 119
SourceGet(app) ==
    IF "source" \in DOMAIN app.metadata THEN app.metadata.source ELSE "unknown"

\* one section of the application list, lines 138-149
Section(apps) == [applications |-> [i \in 1..Len(apps) |-> apps[i].name], count |-> Len(apps)]

\* response_data["server"] of do_GET for /app and /api/v1/apps, lines 115-149,
\* without the name and the address of the host
AppList(apps) ==
    LET docker_apps == SelectSeq(apps, LAMBDA app : SourceGet(app) = "docker")
        svc_apps == SelectSeq(apps, LAMBDA app : SourceGet(app) \in {"svc", "unknown"})
    IN  IF docker_apps # <<>>
        THEN [key \in {"docker-app", "site-app"} |->
                IF key = "docker-app" THEN Section(docker_apps) ELSE Section(svc_apps)]
        ELSE [key \in {"site-app"} |-> Section(svc_apps)]

(***************************************************************************)
(* HAProxyController: the instance registry.                               *)
(*                                                                         *)
(* self.clients is a dict: here the sequence of its items in insertion     *)
(* order, each [name, id, client], where id is the number of the           *)
(* _add_client call that built the client.  An Optional[str] is            *)
(* [some, str], None being [some |-> FALSE].                               *)
(***************************************************************************)
None == [some |-> FALSE, str |-> <<>>]
Some(text) == [some |-> TRUE, str |-> text]

\* `not x` for an Optional[str]
Falsy(x) == ~x.some \/ x.str = <<>>

\* x or 'default'
OrDefault(x) == IF Falsy(x) THEN S_default ELSE x.str

\* list(d.keys())
Keys(d) == [i \in 1..Len(d) |-> d[i].name]

\* name in d
HasKey(d, name) == \E i \in 1..Len(d) : d[i].name = name

\* the position of d[name]
KeyIndex(d, name) == CHOOSE i \in 1..Len(d) : d[i].name = name

\* d[name] = item: an existing key keeps its place, a new one goes last
DictSet(d, item) ==
    IF HasKey(d, item.name)
    THEN [d EXCEPT ![KeyIndex(d, item.name)] = item]
    ELSE Append(d, item)

\* HAProxyController._get_client with the default resolution mutated to
\* demand disambiguation among several instances
GetClientStrict(d, instance_name) ==
    IF Falsy(instance_name)
    THEN IF HasKey(d, S_default)
         THEN [exc |-> "none", entry |-> KeyIndex(d, S_default),
               error |-> "", available |-> <<>>]
         ELSE IF Len(d) = 1
         THEN [exc |-> "none", entry |-> 1, error |-> "", available |-> <<>>]
         ELSE [exc |-> "ValueError", entry |-> 0,
               error |-> "no_instances", available |-> <<>>]
    ELSE IF ~HasKey(d, instance_name.str)
         THEN [exc |-> "ValueError", entry |-> 0,
               error |-> "not_found", available |-> Keys(d)]
         ELSE [exc |-> "none", entry |-> KeyIndex(d, instance_name.str),
               error |-> "", available |-> <<>>]

\* ... mutated to take the first instance even when "default" is registered
GetClientFirst(d, instance_name) ==
    IF Falsy(instance_name)
    THEN IF d # <<>>
         THEN [exc |-> "none", entry |-> 1, error |-> "", available |-> <<>>]
         ELSE [exc |-> "ValueError", entry |-> 0,
               error |-> "no_instances", available |-> <<>>]
    ELSE IF ~HasKey(d, instance_name.str)
         THEN [exc |-> "ValueError", entry |-> 0,
               error |-> "not_found", available |-> Keys(d)]
         ELSE [exc |-> "none", entry |-> KeyIndex(d, instance_name.str),
               error |-> "", available |-> <<>>]

\* ... mutated to fall back to the default resolution for an unknown name
GetClientFallback(d, instance_name) ==
    IF Falsy(instance_name) \/ ~HasKey(d, instance_name.str)
    THEN IF HasKey(d, S_default)
         THEN [exc |-> "none", entry |-> KeyIndex(d, S_default),
               error |-> "", available |-> <<>>]
         ELSE IF d # <<>>
         THEN [exc |-> "none", entry |-> 1, error |-> "", available |-> <<>>]
         ELSE [exc |-> "ValueError", entry |-> 0,
               error |-> "no_instances", available |-> <<>>]
    ELSE [exc |-> "none", entry |-> KeyIndex(d, instance_name.str),
          error |-> "", available |-> <<>>]

\* HAProxyController._get_client: entry is the position in d of the client
\* returned; exc = "ValueError" with error "no_instances" (line 123) or
\* "not_found" and the names of line 127.
GetClient(d, instance_name) ==
    IF Falsy(instance_name)
    THEN IF HasKey(d, S_default)
         THEN [exc |-> "none", entry |-> KeyIndex(d, S_default),
               error |-> "", available |-> <<>>]
         ELSE IF d # <<>>
         THEN [exc |-> "none", entry |-> 1, error |-> "", available |-> <<>>]
         ELSE [exc |-> "ValueError", entry |-> 0,
               error |-> "no_instances", available |-> <<>>]
    ELSE IF ~HasKey(d, instance_name.str)
         THEN [exc |-> "ValueError", entry |-> 0,
               error |-> "not_found", available |-> Keys(d)]
         ELSE [exc |-> "none", entry |-> KeyIndex(d, instance_name.str),
               error |-> "", available |-> <<>>]

\* the record of one _add_client call: how far the client got
Attempt(name, socket_path, made, probes, healthy) ==
    [name |-> name, socket_path |-> socket_path, parsed |-> made.parsed,
     validated |-> made.ok, probes |-> probes, healthy |-> healthy]

\* lines 90-94 of _add_client with the health check's answer ignored
RegisterUnchecked(d, id, name, socket_path, made, health) ==
    [clients |-> DictSet(d, [name |-> name, id |-> id, client |-> made.client]),
     attempt |-> Attempt(name, socket_path, made, Len(health.sent), health.value)]

\* _add_client, lines 90-94: the client is registered when its health check
\* answered true
Register(d, id, name, socket_path, made, health) ==
    [clients |-> IF health.value
                 THEN DictSet(d, [name |-> name, id |-> id, client |-> made.client])
                 ELSE d,
     attempt |-> Attempt(name, socket_path, made, Len(health.sent), health.value)]

\* _add_client, lines 87-99, given what HAProxyClient(...) came to: a
\* constructor that raised leaves the registry alone and is not probed
Probe(d, id, name, socket_path, made, outcome) ==
    IF ~made.ok
    THEN [clients |-> d, attempt |-> Attempt(name, socket_path, made, 0, FALSE)]
    ELSE Register(d, id, name, socket_path, made, HealthCheck(made.client, outcome))

\* HAProxyController._add_client, as the id-th call of it: the registry
\* afterwards and the record of the attempt.  No exception leaves it.
AddClient(d, id, name, socket_path, timeout, fs, outcome) ==
    Probe(d, id, name, socket_path, NewClient(socket_path, timeout, fs), outcome)

\* One iteration of the loop of _initialize_clients (lines 53-57): the
\* [name, socket_path] handed to _add_client, or call = FALSE when the
\* definition holds no ":" and is passed over.
InstanceDef(instance_def) ==
    LET def == Strip(instance_def)
    IN  IF HasChar(def, ":")
        THEN LET k == FirstIndex(def, ":")
             IN  [call |-> TRUE, name |-> Strip(Slice(def, 1, k - 1)),
                  socket_path |-> Strip(Slice(def, k + 1, Len(def)))]
        ELSE [call |-> FALSE, name |-> <<>>, socket_path |-> <<>>]

(***************************************************************************)
(* HAProxyController: the response envelope and handle_action.             *)
(***************************************************************************)
\* HAProxyController._success_response: "message" is set when it is truthy
SuccessResponse(data, message) ==
    IF message = ""
    THEN [success |-> TRUE, status_code |-> 200, data |-> data]
    ELSE [success |-> TRUE, status_code |-> 200, data |-> data, message |-> message]

\* HAProxyController._error_response keeping an empty `data` beside `error`
ErrorResponseWithData(error, status_code) ==
    [success |-> FALSE, status_code |-> status_code, error |-> error, data |-> <<>>]

\* HAProxyController._error_response
ErrorResponse(error, status_code) ==
    [success |-> FALSE, status_code |-> status_code, error |-> error]

\* The body of a POST: None, {}, a dict without "action", or {"action": a}.
NoBody == [kind |-> "none", action |-> ""]
EmptyBody == [kind |-> "empty", action |-> ""]
OtherBody == [kind |-> "other", action |-> ""]
ActionBody(a) == [kind |-> "action", action |-> a]

\* the text of an error: what it says and the instance names it lists
ErrorText(msg, available) == [msg |-> msg, available |-> available]

\* action_path[offset:], with 0-based offset
DropFirst(path, offset) == Slice(path, offset + 1, Len(path))

\* HAProxyController.handle_action with the last part of the path left
\* unchecked in line 274
HandleActionAnyTail(d, action_path, body, outcome) ==
    LET reject(msg, code) ==
            [env |-> ErrorResponse(ErrorText(msg, <<>>), code),
             sent |-> <<>>, served |-> 0]
    IN  IF body.kind # "action"
          THEN reject("action_required", 400)
        ELSE IF ~InList(body.action, VALID_STATES)
          THEN reject("invalid_action", 400)
        ELSE IF Len(action_path) < 5
          THEN reject("incomplete_path", 400)
        ELSE
          LET named == action_path[1] # S_backends
              instance_name == IF named THEN Some(action_path[1]) ELSE None
              remaining_path == DropFirst(action_path, IF named THEN 1 ELSE 0)
          IN  IF Len(remaining_path) # 5
                THEN reject("wrong_structure", 400)
              ELSE IF \/ remaining_path[1] # S_backends
                      \/ remaining_path[3] # S_servers
                THEN reject("path_expected", 400)
              ELSE
                LET backend_name == remaining_path[2]
                    server_name == remaining_path[4]
                    found == GetClient(d, instance_name)
                IN  IF found.exc # "none"
                    THEN [env |-> ErrorResponse(
                                     ErrorText(found.error, found.available), 400),
                          sent |-> <<>>, served |-> 0]
                    ELSE
                      LET r == SetServerState(d[found.entry].client, backend_name,
                                              server_name, body.action, outcome)
                          code == CASE r.exc = "ValueError" -> 400
                                    [] r.exc = "HAProxyCommandError" -> 502
                                    [] r.exc = "HAProxyConnectionError" -> 503
                                    [] OTHER -> 500
                      IN  IF r.exc = "none" /\ r.value
                          THEN [env |-> SuccessResponse(
                                          [instance |-> OrDefault(instance_name),
                                           backend |-> backend_name,
                                           server |-> server_name,
                                           action |-> body.action,
                                           status |-> "completed"],
                                          "state_changed"),
                                sent |-> r.sent, served |-> found.entry]
                          ELSE [env |-> ErrorResponse(ErrorText(r.exc, <<>>), code),
                                sent |-> r.sent, served |-> found.entry]

\* HAProxyController.handle_action: the envelope returned, the commands
\* handed to the transport, and the position in the registry of the client
\* that served the request (0 when none did).
HandleAction(d, action_path, body, outcome) ==
    LET reject(msg, code) ==
            [env |-> ErrorResponse(ErrorText(msg, <<>>), code),
             sent |-> <<>>, served |-> 0]
    IN  IF body.kind # "action"
          THEN reject("action_required", 400)
        ELSE IF ~InList(body.action, VALID_STATES)
          THEN reject("invalid_action", 400)
        ELSE IF Len(action_path) < 5
          THEN reject("incomplete_path", 400)
        ELSE
          LET named == action_path[1] # S_backends
              instance_name == IF named THEN Some(action_path[1]) ELSE None
              remaining_path == DropFirst(action_path, IF named THEN 1 ELSE 0)
          IN  IF Len(remaining_path) # 5
                THEN reject("wrong_structure", 400)
              ELSE IF \/ remaining_path[1] # S_backends
                      \/ remaining_path[3] # S_servers
                      \/ remaining_path[5] # S_action
                THEN reject("path_expected", 400)
              ELSE
                LET backend_name == remaining_path[2]
                    server_name == remaining_path[4]
                    found == GetClient(d, instance_name)
                IN  IF found.exc # "none"
                    THEN [env |-> ErrorResponse(
                                     ErrorText(found.error, found.available), 400),
                          sent |-> <<>>, served |-> 0]
                    ELSE
                      LET r == SetServerState(d[found.entry].client, backend_name,
                                              server_name, body.action, outcome)
                          code == CASE r.exc = "ValueError" -> 400
                                    [] r.exc = "HAProxyCommandError" -> 502
                                    [] r.exc = "HAProxyConnectionError" -> 503
                                    [] OTHER -> 500
                      IN  IF r.exc = "none" /\ r.value
                          THEN [env |-> SuccessResponse(
                                          [instance |-> OrDefault(instance_name),
                                           backend |-> backend_name,
                                           server |-> server_name,
                                           action |-> body.action,
                                           status |-> "completed"],
                                          "state_changed"),
                                sent |-> r.sent, served |-> found.entry]
                          ELSE [env |-> ErrorResponse(ErrorText(r.exc, <<>>), code),
                                sent |-> r.sent, served |-> found.entry]

\* HAProxyController.handle_get: the envelope returned, the commands handed
\* to the transport, and the position in the registry of the client that
\* served the request (0 when none did).
HandleGet(d, path_parts, outcome) ==
    LET reject(msg, code) ==
            [env |-> ErrorResponse(ErrorText(msg, <<>>), code),
             sent |-> <<>>, served |-> 0]
        failed(r, at) ==
            [env |-> ErrorResponse(ErrorText(r.exc, <<>>),
                                   IF r.exc = "ValueError" THEN 400
                                   ELSE IF r.exc = "HAProxyConnectionError" THEN 503
                                   ELSE 500),
             sent |-> r.sent, served |-> at]
    IN  IF path_parts = <<>>
          THEN reject("no_path", 400)
        ELSE
          LET named == path_parts[1] # S_backends
              instance_name == IF named THEN Some(path_parts[1]) ELSE None
              found == GetClient(d, instance_name)
              remaining_path == DropFirst(path_parts, IF named THEN 1 ELSE 0)
          IN  IF found.exc # "none"
                THEN [env |-> ErrorResponse(
                                 ErrorText(found.error, found.available), 400),
                      sent |-> <<>>, served |-> 0]
              ELSE IF remaining_path = <<>>
                THEN reject("incomplete_path", 400)
              ELSE IF remaining_path = <<S_backends>>
                THEN LET r == GetBackends(d[found.entry].client, outcome)
                     IN  IF r.exc # "none" THEN failed(r, found.entry)
                         ELSE [env |-> SuccessResponse(
                                         [instance |-> OrDefault(instance_name),
                                          backends |-> r.value,
                                          count |-> Len(r.value)], ""),
                               sent |-> r.sent, served |-> found.entry]
              ELSE IF /\ Len(remaining_path) = 3
                      /\ remaining_path[1] = S_backends
                      /\ remaining_path[3] = S_servers
                THEN LET r == GetBackendServers(d[found.entry].client,
                                                remaining_path[2], outcome)
                     IN  IF r.exc # "none" THEN failed(r, found.entry)
                         ELSE [env |-> SuccessResponse(
                                         [instance |-> OrDefault(instance_name),
                                          backend |-> remaining_path[2],
                                          servers |-> r.value,
                                          count |-> Len(r.value)], ""),
                               sent |-> r.sent, served |-> found.entry]
              ELSE reject("unknown_path", 404)

(***************************************************************************)
(* server.py: do_GET and do_POST for the controllers.                      *)
(*                                                                         *)
(* The parts of a URL path are strings here, as the names of the           *)
(* controllers are; Chars gives the part as HAProxyController reads it.    *)
(* A controller is the instance [file, cls] the registry holds: an         *)
(* HAProxyController is the controller of this module, a PlainController   *)
(* defines get_name and handle_action alone, and any other class defines   *)
(* handle_get too, its methods returning an envelope or raising.           *)
(***************************************************************************)
Chars(part) ==
    CASE part = "backends" -> S_backends
      [] part = "servers" -> S_servers
      [] part = "action" -> S_action
      [] part = "default" -> S_default
      [] part = "w" -> <<"w">>
      [] part = "s" -> <<"s">>
      [] OTHER -> <<"z">>

NoController == [found |-> FALSE, instance |-> [file |-> 0, cls |-> ""]]

\* ControlManager.get_controller putting the first controller of the
\* registry in the place of one it does not find
GetControllerAny(registry, name) ==
    LET hits == {i \in 1..Len(registry) : registry[i].name = name}
    IN  [controllers |-> registry,
         controller |-> IF registry = <<>> THEN NoController
                        ELSE [found |-> TRUE,
                              instance |-> registry[IF hits = {} THEN 1
                                                    ELSE CHOOSE i \in hits : TRUE].instance]]

\* ControlManager.get_controller dropping from the registry what it hands out
GetControllerOnce(registry, name) ==
    LET hits == {i \in 1..Len(registry) : registry[i].name = name}
    IN  [controllers |-> SelectSeq(registry, LAMBDA item : item.name # name),
         controller |-> IF hits = {} THEN NoController
                        ELSE [found |-> TRUE,
                              instance |-> registry[CHOOSE i \in hits : TRUE].instance]]

\* ControlManager.get_controller: the registry as the call leaves it, and the
\* controller or None
GetController(registry, name) ==
    LET hits == {i \in 1..Len(registry) : registry[i].name = name}
    IN  [controllers |-> registry,
         controller |-> IF hits = {} THEN NoController
                        ELSE [found |-> TRUE,
                              instance |-> registry[CHOOSE i \in hits : TRUE].instance]]

\* ControlManager.list_controllers and has_controller
ListControllers(registry) ==
    [controllers |-> registry, value |-> [i \in 1..Len(registry) |-> registry[i].name]]

HasController(registry, name) ==
    [controllers |-> registry, value |-> \E i \in 1..Len(registry) : registry[i].name = name]

\* hasattr(controller, 'handle_get'), line 169: every controller class
\* inherits the method from AbstractController
HasHandleGet(instance) == TRUE

\* controller.handle_get(resource_path, query_params): what it returns or
\* raises, and what went to the transport
CallHandleGet(instance, d, resource_path, outcome, raises) ==
    IF instance.cls = "HAProxyController"
      THEN LET r == HandleGet(d, [i \in 1..Len(resource_path) |-> Chars(resource_path[i])],
                              outcome)
           IN  [exc |-> "none", env |-> r.env, sent |-> r.sent]
    ELSE IF instance.cls = "PlainController"
      \* AbstractController.handle_get, control.py line 64
      THEN [exc |-> "NotImplementedError", env |-> <<>>, sent |-> <<>>]
    ELSE IF raises
      THEN [exc |-> "Exception", env |-> <<>>, sent |-> <<>>]
    ELSE [exc |-> "none", env |-> SuccessResponse(<<>>, ""), sent |-> <<>>]

\* controller.handle_action(action_path, body)
CallHandleAction(instance, d, action_path, body, outcome, raises) ==
    IF instance.cls = "HAProxyController"
      THEN LET r == HandleAction(d, [i \in 1..Len(action_path) |-> Chars(action_path[i])],
                                 body, outcome)
           IN  [exc |-> "none", env |-> r.env, sent |-> r.sent]
    ELSE IF raises
      THEN [exc |-> "Exception", env |-> <<>>, sent |-> <<>>]
    ELSE [exc |-> "none", env |-> SuccessResponse(<<>>, ""), sent |-> <<>>]

\* result.get('status_code', 200)
StatusOf(env) == IF "status_code" \in DOMAIN env THEN env.status_code ELSE 200

\* what a handler leaves: the status and the error or envelope written, the
\* controller calls made, and the registry
Answer(registry, status, error, env, invoked, sent) ==
    [controllers |-> registry, status |-> status, error |-> error, env |-> env,
     invoked |-> invoked, sent |-> sent]

\* do_GET from line 157 on: a path of a controller, or any other path but
\* /ping, /app and /api/v1/apps
DoGet(registry, d, parts, outcome, raises) ==
    IF Len(parts) >= 3 /\ SubSeq(parts, 1, 2) = <<"api", "v1">>
    THEN LET got == GetController(registry, parts[3])
             resource_path == Slice(parts, 4, Len(parts))
         IN  IF ~got.controller.found
               THEN Answer(got.controllers, 404, "controller_not_found", <<>>, <<>>, <<>>)
             ELSE IF ~HasHandleGet(got.controller.instance)
               THEN Answer(got.controllers, 405, "get_not_supported", <<>>, <<>>, <<>>)
             ELSE
               LET call == CallHandleGet(got.controller.instance, d, resource_path,
                                         outcome, raises)
                   invoked == <<[instance |-> got.controller.instance,
                                 method |-> "handle_get", path |-> resource_path,
                                 body |-> NoBody]>>
               IN  IF call.exc # "none"
                   THEN Answer(got.controllers, 500, "internal_error", <<>>, invoked, call.sent)
                   ELSE Answer(got.controllers, StatusOf(call.env), "", call.env,
                               invoked, call.sent)
    ELSE Answer(registry, 404, "not_found", <<>>, <<>>, <<>>)

\* do_POST, lines 201-256.  The body is what json.loads made of the content,
\* {} when there is no content, or "malformed" when json.loads raises.
DoPost(registry, d, parts, body, outcome, raises) ==
    IF Len(parts) < 3
      THEN Answer(registry, 400, "invalid_path", <<>>, <<>>, <<>>)
    ELSE IF SubSeq(parts, 1, 2) # <<"api", "v1">>
      THEN Answer(registry, 404, "not_found", <<>>, <<>>, <<>>)
    ELSE
      LET old == parts[3] = "control" /\ Len(parts) >= 4
          controller_name == IF old THEN parts[4] ELSE parts[3]
          action_path == Slice(parts, IF old THEN 5 ELSE 4, Len(parts))
          got == GetController(registry, controller_name)
      IN  IF ~got.controller.found
            THEN Answer(got.controllers, 404, "controller_not_found", <<>>, <<>>, <<>>)
          ELSE IF body.kind = "malformed"
            THEN Answer(got.controllers, 400, "invalid_json", <<>>, <<>>, <<>>)
          ELSE
            LET call == CallHandleAction(got.controller.instance, d, action_path, body,
                                         outcome, raises)
                invoked == <<[instance |-> got.controller.instance,
                              method |-> "handle_action", path |-> action_path,
                              body |-> body]>>
            IN  IF call.exc # "none"
                THEN Answer(got.controllers, 500, "internal_error", <<>>, invoked, call.sent)
                ELSE Answer(got.controllers, StatusOf(call.env), "", call.env,
                            invoked, call.sent)

(***************************************************************************)
(* State.                                                                  *)
(***************************************************************************)
VARIABLES
    \* Config.HAPROXY_INSTANCES and Config.HAPROXY_TIMEOUT
    HAPROXY_INSTANCES, HAPROXY_TIMEOUT,
    \* HAProxyController: where its construction stands ("new", "loop",
    \* "serving"), the instance definitions the loop has yet to visit,
    \* self.clients, the record of every _add_client call, and the request
    \* being answered
    pc, pending, clients, attempts, last,
    \* ClientSpec and TransportSpec: the HAProxyClient under call, and in
    \* ClientSpec the call that has just completed
    client, ret,
    \* TransportSpec, per thread inside _send_command: the statement it is at,
    \* its argument `command`, its locals `sock` (0 when unbound) and
    \* `response`, and what the call returned or raised
    at, command, sock, response, result,
    \* TransportSpec: the socket each thread's call created, as the operating
    \* system holds it
    sockets,
    \* ControlManager: the files the glob of line 37 yields, in its order, the
    \* place of the loop in them, self.controllers, and the records the
    \* logger was given about the classes and files
    controller_files, next_file, controllers, log,
    \* DiscoveryManager: the files the glob of line 34 yields, the place of
    \* the loop in them, how far __init__ got ("none", "loop", "ready", or
    \* "raised" when it raised), self.discoverers, and the last call of
    \* run_discovery or request for the application list with its result
    plugin_files, next_plugin, loading, discoverers, listing,
    \* AgentRequestHandler: the request do_GET or do_POST has just answered,
    \* with the status written, the controller calls made and the envelope
    \* sent
    http

ctlVars == <<HAPROXY_INSTANCES, HAPROXY_TIMEOUT, pc, pending, clients, attempts, last>>
cliVars == <<client, ret>>
trVars == <<at, command, sock, response, result, sockets>>
mgrVars == <<controller_files, next_file, controllers, log>>
dscVars == <<plugin_files, next_plugin, loading, discoverers, listing>>
srvVars == <<http>>
vars == <<ctlVars, cliVars, trVars, mgrVars, dscVars, srvVars>>

(***************************************************************************)
(* Inputs.                                                                 *)
(***************************************************************************)
\* Config.HAPROXY_SOCKET_PATH, by default
HAPROXY_SOCKET_PATH ==
    <<"/", "v", "a", "r", "/", "r", "u", "n", "/",
      "h", "a", "p", "r", "o", "x", "y", ".", "s", "o", "c", "k">>

\* float(HAPROXY_TIMEOUT): the default and a negative setting
Timeouts == {5, -1}

T_unix == <<"/", "x">>
T_tcp == <<"i", "p", "v", "4", "@", "h", ":", "7">>

\* instance definitions: "name:spec" as the controller reads them,
\* "name=spec" as config.py documents them
InstanceDefs ==
    { <<"a", ":">> \o T_unix,
      <<"b", ":">> \o T_tcp,
      S_default \o <<":">> \o T_unix,
      <<"p", "=">> \o T_tcp }

\* values of HAPROXY_INSTANCES: unset or empty, one bare address, or up to
\* MaxEntries comma-separated definitions
Configs ==
    {<<>>, T_unix, T_tcp}
      \cup {Join(defs, <<",">>) : defs \in SeqsOf(InstanceDefs, 1, MaxEntries)}

\* what HAProxy may answer to "show info", in chunks
InfoChunks ==
    { S_Version \o <<":">>,
      <<" ", "2", "\n">>,
      <<"N", "a", "m", "e", ":", " ", "h", "\n">> }

\* what HAProxy may answer to "set server", in chunks
StateChunks ==
    { <<"E", "r", "r">>, <<"o", "r">>, <<"I", "N", "V">>, <<"a", "l", "i", "d">>,
      <<" ">>, <<"\n">>, <<"o", "k">> }

\* the same for the controller's requests, in whole words: "Invalid",
\* " server." and "error"
ReplyChunks ==
    { <<"I", "n", "v", "a", "l", "i", "d">>,
      <<" ", "s", "e", "r", "v", "e", "r", ".">>,
      S_error }

StateArgs == {"ready", "drain", "maint", "bogus", "READY", ""}

\* the states a server is in at HAProxy
ServerStates == {"ready", "drain", "maint"}

BackendNames == {<<"w">>}
ServerNames == {<<"s">>}
InstanceArgs == {<<"a">>, <<"b">>, S_default, <<"z">>}

WellFormedPath(b, s) == <<S_backends, b, S_servers, s, S_action>>

ActionPaths ==
    UNION { { WellFormedPath(b, s),
              <<S_backends, b, S_servers, s>>,
              <<S_backends, b, S_servers, s, S_servers>>,
              <<S_backends, b, S_servers, s, S_action, S_action>> }
            \cup UNION { { <<i>> \o WellFormedPath(b, s),
                           <<i, S_backends, b, S_servers, s>>,
                           <<i, S_servers, b, S_servers, s, S_action>> }
                         : i \in InstanceArgs }
          : b \in BackendNames, s \in ServerNames }
      \cup {<<>>, <<S_backends>>}

Bodies == {NoBody, EmptyBody, OtherBody} \cup {ActionBody(a) : a \in StateArgs}

InstanceNames == {None, Some(<<>>)} \cup {Some(i) : i \in InstanceArgs}

\* first lines of an answer to "show stat": the header as HAProxy writes
\* it, the header without the blank after "#", and a data row where the
\* header should be
StatsHeaders ==
    { <<"#", " ">> \o Join(<<S_pxname, S_svname, S_status>>, <<",">>),
      <<"#">> \o Join(<<S_pxname, S_svname, S_status>>, <<",">>),
      <<"w", ",", "s", ",", "U", "P">> }

\* the lines that follow: aggregate rows of two proxies, servers of both,
\* one with blanks around a field, and a row that is one field short
StatsRows ==
    { <<"w", ",">> \o S_BACKEND \o <<",", "U", "P">>,
      <<"a", ",">> \o S_BACKEND \o <<",", "U", "P">>,
      <<"w", ",">> \o S_FRONTEND \o <<",", "O", "P", "E", "N">>,
      <<"w", ",", " ", "s", " ", ",", "U", "P">>,
      <<"a", ",", "s", ",", "D", "O", "W", "N">>,
      <<"w", ",", "t">> }

\* the lines, each ended by a newline
Unlines(lines) == Concat([i \in 1..Len(lines) |-> lines[i] \o <<"\n">>])

\* answers to "show stat": a first line and up to MaxRows more
StatsResponses ==
    {Unlines(<<h>> \o rows) : h \in StatsHeaders, rows \in SeqsOf(StatsRows, 0, MaxRows)}

StatsOutcomes ==
    {[kind |-> "ok", response |-> t] : t \in StatsResponses}
      \cup {[kind |-> k, response |-> <<>>] : k \in FailureKinds}

\* the same for the controller's requests: no table, a header alone, and a
\* table of two proxies
StatsReplies ==
    { <<>>,
      Unlines(<<<<"#", " ">> \o Join(<<S_pxname, S_svname, S_status>>, <<",">>)>>),
      Unlines(<< <<"#", " ">> \o Join(<<S_pxname, S_svname, S_status>>, <<",">>),
                 <<"w", ",">> \o S_BACKEND \o <<",", "U", "P">>,
                 <<"w", ",", "s", ",", "U", "P">>,
                 <<"a", ",">> \o S_BACKEND \o <<",", "U", "P">> >>) }

ReplyOutcomes ==
    {[kind |-> "ok", response |-> t] : t \in StatsReplies}
      \cup {[kind |-> k, response |-> <<>>] : k \in FailureKinds}

\* the paths of GET requests, after /api/v1/haproxy/
GetPaths ==
    UNION { { <<S_backends>>,
              <<S_backends, b>>,
              <<S_backends, b, S_servers>> }
            \cup UNION { { <<i>>,
                           <<i, S_backends>>,
                           <<i, S_backends, b, S_servers>>,
                           <<i, S_backends, b, S_action>> }
                         : i \in InstanceArgs }
          : b \in BackendNames }
      \cup {<<>>}

Unused == [kind |-> "unused", response |-> <<>>]

\* the outcome as far as the call met it: none when nothing was sent
Met(outcome, sent) == IF sent = <<>> THEN Unused ELSE outcome

\* The outcomes to draw for a request: the exchange has an outcome only when
\* the request gets as far as the transport.
OutcomesOf(reaches, chunks) == IF reaches THEN Outcomes(chunks) ELSE {Unused}

(***************************************************************************)
(* Spec: the controller.                                                   *)
(***************************************************************************)
NoFound == [exc |-> "none", entry |-> 0, error |-> "", available |-> <<>>]

NoRequest ==
    [op |-> "none", instance_name |-> None, path |-> <<>>, body |-> NoBody,
     outcome |-> Unused, found |-> NoFound, env |-> <<>>, sent |-> <<>>,
     served |-> 0]

\* `current` is the state HAProxy holds for the server when set_server_state
\* is called
NoCall ==
    [op |-> "none", backend_name |-> <<>>, server_name |-> <<>>, state |-> "",
     current |-> "", outcome |-> Unused,
     result |-> [exc |-> "none", value |-> FALSE, sent |-> <<>>]]

ClientIdle == client = NoClient /\ ret = NoCall

Threads == 1..NumThreads

NoSocket == [state |-> "none", sent |-> <<>>, wire |-> <<>>, users |-> {}, connects |-> 0]

NoResult == [exc |-> "none", value |-> <<>>, message |-> ""]

TransportIdle ==
    /\ at = [t \in Threads |-> "idle"]
    /\ command = [t \in Threads |-> <<>>]
    /\ sock = [t \in Threads |-> 0]
    /\ response = [t \in Threads |-> <<>>]
    /\ result = [t \in Threads |-> NoResult]
    /\ sockets = [t \in Threads |-> NoSocket]

\* no ControlManager has been constructed
ManagerIdle ==
    /\ controller_files = <<>>
    /\ next_file = 0
    /\ controllers = <<>>
    /\ log = <<>>

NoListing ==
    [op |-> "none", raising |-> {}, calls |-> <<>>, apps |-> <<>>, exc |-> "none",
     sections |-> <<>>]

\* no DiscoveryManager has been constructed
DiscoveryIdle ==
    /\ plugin_files = <<>>
    /\ next_plugin = 0
    /\ loading = "none"
    /\ discoverers = <<>>
    /\ listing = NoListing

NoExchange ==
    [op |-> "none", parts |-> <<>>, body |-> NoBody, status |-> 0, error |-> "",
     env |-> <<>>, invoked |-> <<>>, sent |-> <<>>]

\* no request has been answered
ServerIdle == http = NoExchange

\* HAProxyController.__init__, line 32
Init ==
    /\ HAPROXY_INSTANCES \in Configs
    /\ HAPROXY_TIMEOUT \in Timeouts
    /\ pc = "new"
    /\ pending = <<>>
    /\ clients = <<>>
    /\ attempts = <<>>
    /\ last = NoRequest
    /\ ClientIdle
    /\ TransportIdle
    /\ ManagerIdle
    /\ DiscoveryIdle
    /\ ServerIdle

\* _initialize_clients, lines 47-53: a non-empty string is split at ","
InitializeClients ==
    /\ pc = "new"
    /\ HAPROXY_INSTANCES # <<>>
    /\ pending' = Split(HAPROXY_INSTANCES, ",")
    /\ pc' = "loop"
    /\ UNCHANGED <<HAPROXY_INSTANCES, HAPROXY_TIMEOUT, clients, attempts, last>>
    /\ UNCHANGED <<cliVars, trVars, mgrVars, dscVars, srvVars>>

\* _initialize_clients, lines 62-72: no HAPROXY_INSTANCES, so one instance
\* "default" at HAPROXY_SOCKET_PATH
InitializeDefault ==
    /\ pc = "new"
    /\ HAPROXY_INSTANCES = <<>>
    /\ \E fs \in FsKinds, outcome \in Outcomes(InfoChunks) :
         LET added == AddClient(clients, Len(attempts) + 1, S_default,
                                HAPROXY_SOCKET_PATH, HAPROXY_TIMEOUT, fs, outcome)
         IN  /\ clients' = added.clients
             /\ attempts' = Append(attempts, added.attempt)
    /\ pc' = "serving"
    /\ UNCHANGED <<HAPROXY_INSTANCES, HAPROXY_TIMEOUT, pending, last>>
    /\ UNCHANGED <<cliVars, trVars, mgrVars, dscVars, srvVars>>

\* _initialize_clients, lines 53-57: one turn of the loop
NextInstanceDef ==
    /\ pc = "loop"
    /\ pending # <<>>
    /\ LET def == InstanceDef(Head(pending))
       IN  IF def.call
           THEN \E fs \in FsKinds, outcome \in Outcomes(InfoChunks) :
                  LET added == AddClient(clients, Len(attempts) + 1, def.name,
                                         def.socket_path, HAPROXY_TIMEOUT, fs, outcome)
                  IN  /\ clients' = added.clients
                      /\ attempts' = Append(attempts, added.attempt)
           ELSE UNCHANGED <<clients, attempts>>
    /\ pending' = Tail(pending)
    /\ UNCHANGED <<HAPROXY_INSTANCES, HAPROXY_TIMEOUT, pc, last>>
    /\ UNCHANGED <<cliVars, trVars, mgrVars, dscVars, srvVars>>

\* _initialize_clients, lines 67-72: the loop is over
FinishInitialize ==
    /\ pc = "loop"
    /\ pending = <<>>
    /\ pc' = "serving"
    /\ UNCHANGED <<HAPROXY_INSTANCES, HAPROXY_TIMEOUT, pending, clients, attempts, last>>
    /\ UNCHANGED <<cliVars, trVars, mgrVars, dscVars, srvVars>>

\* a call of _get_client
Resolve ==
    /\ pc = "serving"
    /\ last.op = "none"
    /\ \E instance_name \in InstanceNames :
         last' = [NoRequest EXCEPT !.op = "_get_client",
                                   !.instance_name = instance_name,
                                   !.found = GetClient(clients, instance_name)]
    /\ UNCHANGED <<HAPROXY_INSTANCES, HAPROXY_TIMEOUT, pc, pending, clients, attempts>>
    /\ UNCHANGED <<cliVars, trVars, mgrVars, dscVars, srvVars>>

\* a POST routed to handle_action
Action ==
    /\ pc = "serving"
    /\ last.op = "none"
    /\ \E action_path \in ActionPaths, body \in Bodies :
       \E outcome \in OutcomesOf(
                        HandleAction(clients, action_path, body, Unused).sent # <<>>,
                        ReplyChunks) :
         LET r == HandleAction(clients, action_path, body, outcome)
         IN  last' = [NoRequest EXCEPT !.op = "handle_action",
                                       !.path = action_path,
                                       !.body = body,
                                       !.outcome = Met(outcome, r.sent),
                                       !.env = r.env,
                                       !.sent = r.sent,
                                       !.served = r.served]
    /\ UNCHANGED <<HAPROXY_INSTANCES, HAPROXY_TIMEOUT, pc, pending, clients, attempts>>
    /\ UNCHANGED <<cliVars, trVars, mgrVars, dscVars, srvVars>>

\* a GET routed to handle_get
Get ==
    /\ pc = "serving"
    /\ last.op = "none"
    /\ \E path_parts \in GetPaths :
       \E outcome \in IF HandleGet(clients, path_parts, Unused).sent # <<>>
                      THEN ReplyOutcomes ELSE {Unused} :
         LET r == HandleGet(clients, path_parts, outcome)
         IN  last' = [NoRequest EXCEPT !.op = "handle_get",
                                       !.path = path_parts,
                                       !.outcome = Met(outcome, r.sent),
                                       !.env = r.env,
                                       !.sent = r.sent,
                                       !.served = r.served]
    /\ UNCHANGED <<HAPROXY_INSTANCES, HAPROXY_TIMEOUT, pc, pending, clients, attempts>>
    /\ UNCHANGED <<cliVars, trVars, mgrVars, dscVars, srvVars>>

\* the answer is handed to the HTTP layer
Respond ==
    /\ pc = "serving"
    /\ last.op # "none"
    /\ last' = NoRequest
    /\ UNCHANGED <<HAPROXY_INSTANCES, HAPROXY_TIMEOUT, pc, pending, clients, attempts>>
    /\ UNCHANGED <<cliVars, trVars, mgrVars, dscVars, srvVars>>

Next ==
    \/ InitializeClients
    \/ InitializeDefault
    \/ NextInstanceDef
    \/ FinishInitialize
    \/ Resolve
    \/ Action
    \/ Get
    \/ Respond

Spec == Init /\ [][Next]_vars

(***************************************************************************)
(* ClientSpec: one HAProxyClient, built with its socket in place, called   *)
(* one operation at a time.                                                *)
(***************************************************************************)
ControllerIdle ==
    /\ HAPROXY_INSTANCES = <<>>
    /\ HAPROXY_TIMEOUT \in Timeouts
    /\ pc = "none"
    /\ pending = <<>>
    /\ clients = <<>>
    /\ attempts = <<>>
    /\ last = NoRequest

\* the socket_path arguments of the clients under call
SocketPaths == {T_unix, T_tcp, <<" ">> \o T_unix \o <<"/">>}

\* HAProxyClient.__init__ has returned
ClientInit ==
    /\ ControllerIdle
    /\ \E socket_path \in SocketPaths :
         /\ NewClient(socket_path, HAPROXY_TIMEOUT, "socket").ok
         /\ client = NewClient(socket_path, HAPROXY_TIMEOUT, "socket").client
    /\ ret = NoCall
    /\ TransportIdle
    /\ ManagerIdle
    /\ DiscoveryIdle
    /\ ServerIdle

\* a call of set_server_state
CallSetServerState ==
    /\ ret.op = "none"
    /\ \E b \in BackendNames, s \in ServerNames, state \in StateArgs,
          current \in ServerStates :
       \E outcome \in OutcomesOf(SetServerState(client, b, s, state, Unused).sent # <<>>,
                                 StateChunks) :
         LET r == SetServerState(client, b, s, state, outcome)
         IN  ret' = [op |-> "set_server_state", backend_name |-> b,
                     server_name |-> s, state |-> state, current |-> current,
                     outcome |-> Met(outcome, r.sent), result |-> r]
    /\ UNCHANGED <<client, ctlVars, trVars, mgrVars, dscVars, srvVars>>

\* a call of get_info
CallGetInfo ==
    /\ ret.op = "none"
    /\ \E outcome \in Outcomes(InfoChunks) :
         ret' = [NoCall EXCEPT !.op = "get_info", !.outcome = outcome,
                               !.result = GetInfo(client, outcome)]
    /\ UNCHANGED <<client, ctlVars, trVars, mgrVars, dscVars, srvVars>>

\* a call of health_check
CallHealthCheck ==
    /\ ret.op = "none"
    /\ \E outcome \in Outcomes(InfoChunks) :
         ret' = [NoCall EXCEPT !.op = "health_check", !.outcome = outcome,
                               !.result = HealthCheck(client, outcome)]
    /\ UNCHANGED <<client, ctlVars, trVars, mgrVars, dscVars, srvVars>>

\* a call of get_backends
CallGetBackends ==
    /\ ret.op = "none"
    /\ \E outcome \in StatsOutcomes :
         ret' = [NoCall EXCEPT !.op = "get_backends", !.outcome = outcome,
                               !.result = GetBackends(client, outcome)]
    /\ UNCHANGED <<client, ctlVars, trVars, mgrVars, dscVars, srvVars>>

\* a call of get_backend_servers
CallGetBackendServers ==
    /\ ret.op = "none"
    /\ \E b \in BackendNames, outcome \in StatsOutcomes :
         ret' = [NoCall EXCEPT !.op = "get_backend_servers", !.backend_name = b,
                               !.outcome = outcome,
                               !.result = GetBackendServers(client, b, outcome)]
    /\ UNCHANGED <<client, ctlVars, trVars, mgrVars, dscVars, srvVars>>

\* a call of get_server_state
CallGetServerState ==
    /\ ret.op = "none"
    /\ \E b \in BackendNames, sv \in ServerNames, outcome \in StatsOutcomes :
         ret' = [NoCall EXCEPT !.op = "get_server_state", !.backend_name = b,
                               !.server_name = sv, !.outcome = outcome,
                               !.result = GetServerState(client, b, sv, outcome)]
    /\ UNCHANGED <<client, ctlVars, trVars, mgrVars, dscVars, srvVars>>

\* the caller takes the result
TakeResult ==
    /\ ret.op # "none"
    /\ ret' = NoCall
    /\ UNCHANGED <<client, ctlVars, trVars, mgrVars, dscVars, srvVars>>

ClientNext ==
    \/ CallSetServerState
    \/ CallGetInfo
    \/ CallHealthCheck
    \/ CallGetBackends
    \/ CallGetBackendServers
    \/ CallGetServerState
    \/ TakeResult

ClientSpec == ClientInit /\ [][ClientNext]_vars

(***************************************************************************)
(* ConstructSpec: HAProxyClient(socket_path, timeout) for socket_path      *)
(* arguments of both kinds, well formed and not.                           *)
(***************************************************************************)
\* "ipv4@..." arguments: ports in and out of range, ports that are not
\* digits, no port, no ":", a host holding ":", no host, blanks around
TcpSpecs ==
    {
      <<"i", "p", "v", "4", "@", "h", ":", "7">>,
      <<"i", "p", "v", "4", "@", "h", ":", "1">>,
      <<"i", "p", "v", "4", "@", "h", ":", "0">>,
      <<"i", "p", "v", "4", "@", "h", ":", "6", "5", "5", "3", "5">>,
      <<"i", "p", "v", "4", "@", "h", ":", "6", "5", "5", "3", "6">>,
      <<"i", "p", "v", "4", "@", "h", ":", "0", "8">>,
      <<"i", "p", "v", "4", "@", "h", ":", "x">>,
      <<"i", "p", "v", "4", "@", "h", ":">>,
      <<"i", "p", "v", "4", "@", "h", ":", "8", "_", "0">>,
      <<"i", "p", "v", "4", "@", "h", ":", "+", "8">>,
      <<"i", "p", "v", "4", "@", "h", ":", " ", "8">>,
      <<"i", "p", "v", "4", "@", "h", ":", "-", "1">>,
      <<"i", "p", "v", "4", "@", "h">>,
      <<"i", "p", "v", "4", "@", "a", ":", "b", ":", "7">>,
      <<"i", "p", "v", "4", "@", ":", "7">>,
      <<" ", "i", "p", "v", "4", "@", "h", ":", "7", " ">>
    }

\* other arguments: paths in and out of pathlib's normal form, with and
\* without blanks around, the empty string, the prefix in capitals
UnixSpecs ==
    {
      <<"/", "x">>,
      <<" ", "/", "x">>,
      <<"/", "x", "/">>,
      <<"/", "x", " ">>,
      <<"/", "a", "/", "/", "b">>,
      <<".", "/", "x">>,
      <<"x">>,
      <<>>,
      <<"/", "/", "x">>,
      <<"I", "P", "V", "4", "@", "h", ":", "7">>
    }

ConstructInit ==
    /\ ControllerIdle
    /\ ClientIdle
    /\ TransportIdle
    /\ ManagerIdle
    /\ DiscoveryIdle
    /\ ServerIdle

\* HAProxyClient.__init__ returns or raises: ret holds the argument, what
\* _parse_socket_path made of it, and the exception if any
Construct ==
    /\ ret.op = "none"
    /\ \E socket_path \in TcpSpecs \cup UnixSpecs, fs \in FsKinds :
         LET made == NewClient(socket_path, HAPROXY_TIMEOUT, fs)
         IN  /\ client' = made.client
             /\ ret' = [op |-> "__init__", socket_path |-> socket_path, fs |-> fs,
                         address |-> ParseSocketPath(socket_path),
                         backend_name |-> <<>>, server_name |-> <<>>, state |-> "",
                         outcome |-> Unused,
                         result |-> [exc |-> IF made.ok THEN "none"
                                             ELSE "HAProxyConnectionError",
                                     value |-> made.ok, sent |-> <<>>]]
    /\ UNCHANGED <<ctlVars, trVars, mgrVars, dscVars, srvVars>>

\* the client, if one was built, is dropped
Discard ==
    /\ ret.op = "__init__"
    /\ client' = NoClient
    /\ ret' = NoCall
    /\ UNCHANGED <<ctlVars, trVars, mgrVars, dscVars, srvVars>>

ConstructNext ==
    \/ Construct
    \/ Discard

ConstructSpec == ConstructInit /\ [][ConstructNext]_vars

(***************************************************************************)
(* CoreSpec: the controller after _initialize_clients has registered one   *)
(* healthy instance "default", its requests, and the calls of the          *)
(* operations of that instance's client.                                   *)
(***************************************************************************)
CoreInit ==
    /\ \E socket_path \in {T_unix, T_tcp}, timeout \in {t \in Timeouts : t > 0} :
         LET made == NewClient(socket_path, timeout, "socket")
         IN  /\ HAPROXY_INSTANCES = S_default \o <<":">> \o socket_path
             /\ HAPROXY_TIMEOUT = timeout
             /\ clients = <<[name |-> S_default, id |-> 1, client |-> made.client]>>
             /\ attempts = <<Attempt(S_default, socket_path, made, 1, TRUE)>>
             /\ client = made.client
    /\ pc = "serving"
    /\ pending = <<>>
    /\ last = NoRequest
    /\ ret = NoCall
    /\ TransportIdle
    /\ ManagerIdle
    /\ DiscoveryIdle
    /\ ServerIdle

\* one request or one call at a time
CoreNext ==
    \/ ret.op = "none" /\ Resolve
    \/ ret.op = "none" /\ Action
    \/ ret.op = "none" /\ Get
    \/ Respond
    \/ last.op = "none" /\ ClientNext

CoreSpec == CoreInit /\ [][CoreNext]_vars


(***************************************************************************)
(* ManagerSpec: ControlManager.__init__ over the files of the controllers  *)
(* directory.                                                              *)
(***************************************************************************)
\* the controller classes a file may define, in the order of their names,
\* which is the order inspect.getmembers yields them in
ClassNames == <<"EurekaController", "HAProxyController">>

ControllerNames == {"eureka", "haproxy"}

ControllerFiles ==
    {[broken |-> TRUE, members |-> <<>>]} \cup
    {[broken |-> FALSE,
      members |-> [k \in 1..Len(picked) |->
                     [cls |-> ClassNames[picked[k]], name |-> named[k], raises |-> bad[k]]]] :
       <<picked, named, bad>> \in
         {t \in SeqsOf(1..Len(ClassNames), 0, Len(ClassNames))
                  \X SeqsOf(ControllerNames, 0, Len(ClassNames))
                  \X SeqsOf(BOOLEAN, 0, Len(ClassNames)) :
            /\ Len(t[1]) = Len(t[2]) /\ Len(t[2]) = Len(t[3])
            /\ \A i, j \in 1..Len(t[1]) : i < j => t[1][i] < t[1][j]}}

\* ControlManager.__init__, lines 23-24, up to the loop of line 37
ManagerInit ==
    /\ HAPROXY_INSTANCES = <<>>
    /\ HAPROXY_TIMEOUT = 5
    /\ pc = "none"
    /\ pending = <<>>
    /\ clients = <<>>
    /\ attempts = <<>>
    /\ last = NoRequest
    /\ ClientIdle
    /\ TransportIdle
    /\ DiscoveryIdle
    /\ ServerIdle
    /\ controller_files \in SeqsOf(ControllerFiles, 0, MaxFiles)
    /\ next_file = 1
    /\ controllers = <<>>
    /\ log = <<>>

\* one round of the loop of line 37
LoadFile ==
    /\ next_file \in 1..Len(controller_files)
    /\ LET loaded == LoadControllerFromFile([controllers |-> controllers, log |-> log],
                                            next_file, controller_files[next_file])
       IN  /\ controllers' = loaded.controllers
           /\ log' = loaded.log
    /\ next_file' = next_file + 1
    /\ UNCHANGED <<controller_files, ctlVars, cliVars, trVars, dscVars, srvVars>>

\* the loop of line 37 is over: lines 43-48, after which the manager serves
LoadControllersDone ==
    /\ next_file = Len(controller_files) + 1
    /\ next_file' = 0
    /\ log' = Append(log, [event |-> IF controllers = <<>> THEN "none_loaded" ELSE "count",
                           name |-> "", instance |-> [file |-> 0, cls |-> ""]])
    /\ UNCHANGED <<controller_files, controllers, ctlVars, cliVars, trVars, dscVars, srvVars>>

ManagerNext ==
    \/ LoadFile
    \/ LoadControllersDone

ManagerSpec == ManagerInit /\ [][ManagerNext]_vars


(***************************************************************************)
(* DiscoverySpec: DiscoveryManager.__init__ over the plugin files, and     *)
(* once it has returned, run_discovery and the application list.           *)
(***************************************************************************)
\* the discoverer classes a file may define, in the order of their names
DiscovererNames == <<"DockerDiscoverer", "EurekaDiscoverer", "SvcAppDiscoverer">>

\* plugin files: one that raises when executed, and those that define at
\* most two discoverer classes
PluginFiles ==
    {[broken |-> TRUE, members |-> <<>>]} \cup
    {[broken |-> FALSE,
      members |-> [k \in 1..Len(picked) |->
                     [cls |-> DiscovererNames[picked[k]], raises |-> bad[k]]]] :
       <<picked, bad>> \in
         {t \in SeqsOf(1..Len(DiscovererNames), 0, 2) \X SeqsOf(BOOLEAN, 0, 2) :
            /\ Len(t[1]) = Len(t[2])
            /\ \A i, j \in 1..Len(t[1]) : i < j => t[1][i] < t[1][j]}}

\* DiscoveryManager.__init__, lines 28-29, up to the loop of line 34
DiscoveryInit ==
    /\ HAPROXY_INSTANCES = <<>>
    /\ HAPROXY_TIMEOUT = 5
    /\ pc = "none"
    /\ pending = <<>>
    /\ clients = <<>>
    /\ attempts = <<>>
    /\ last = NoRequest
    /\ ClientIdle
    /\ TransportIdle
    /\ ManagerIdle
    /\ ServerIdle
    /\ plugin_files \in SeqsOf(PluginFiles, 0, MaxFiles)
    /\ next_plugin = 1
    /\ loading = "loop"
    /\ discoverers = <<>>
    /\ listing = NoListing

\* one round of the loop of line 34; what it raises leaves __init__
LoadPlugin ==
    /\ loading = "loop"
    /\ next_plugin \in 1..Len(plugin_files)
    /\ LET loaded == LoadPluginFile(discoverers, next_plugin, plugin_files[next_plugin])
       IN  /\ discoverers' = loaded.discoverers
           /\ loading' = IF loaded.raised THEN "raised" ELSE "loop"
    /\ next_plugin' = next_plugin + 1
    /\ UNCHANGED <<plugin_files, listing, ctlVars, cliVars, trVars, mgrVars, srvVars>>

\* the loop of line 34 is over and __init__ returns
LoadPluginsDone ==
    /\ loading = "loop"
    /\ next_plugin = Len(plugin_files) + 1
    /\ loading' = "ready"
    /\ UNCHANGED <<plugin_files, next_plugin, discoverers, listing,
                   ctlVars, cliVars, trVars, mgrVars, srvVars>>

\* a call of run_discovery, some of the discoverers raising
CallRunDiscovery ==
    /\ loading = "ready"
    /\ listing.op = "none"
    /\ \E raising \in SUBSET (1..Len(discoverers)) :
         LET ran == RunDiscovery(discoverers, raising)
         IN  listing' = [op |-> "run_discovery", raising |-> raising, calls |-> ran.calls,
                         apps |-> ran.apps, exc |-> ran.exc, sections |-> <<>>]
    /\ UNCHANGED <<plugin_files, next_plugin, loading, discoverers,
                   ctlVars, cliVars, trVars, mgrVars, srvVars>>

\* do_GET for /app or /api/v1/apps, server.py lines 108-153
GetApps ==
    /\ loading = "ready"
    /\ listing.op = "none"
    /\ \E raising \in SUBSET (1..Len(discoverers)) :
         LET ran == RunDiscovery(discoverers, raising)
         IN  listing' = [op |-> "GET /app", raising |-> raising, calls |-> ran.calls,
                         apps |-> ran.apps, exc |-> ran.exc,
                         sections |-> IF ran.exc = "none" THEN AppList(ran.apps) ELSE <<>>]
    /\ UNCHANGED <<plugin_files, next_plugin, loading, discoverers,
                   ctlVars, cliVars, trVars, mgrVars, srvVars>>

\* the caller takes the list
TakeListing ==
    /\ listing.op # "none"
    /\ listing' = NoListing
    /\ UNCHANGED <<plugin_files, next_plugin, loading, discoverers,
                   ctlVars, cliVars, trVars, mgrVars, srvVars>>

DiscoveryNext ==
    \/ LoadPlugin
    \/ LoadPluginsDone
    \/ CallRunDiscovery
    \/ GetApps
    \/ TakeListing

DiscoverySpec == DiscoveryInit /\ [][DiscoveryNext]_vars


(***************************************************************************)
(* ServerSpec: run_server constructs the ControlManager, whose controllers *)
(* are loaded from the files; then requests are answered one at a time.    *)
(* The HAProxyController holds one healthy instance, "default".            *)
(***************************************************************************)
F_haproxy ==
    [broken |-> FALSE,
     members |-> <<[cls |-> "HAProxyController", name |-> "haproxy", raises |-> FALSE]>>]

F_others ==
    [broken |-> FALSE,
     members |-> <<[cls |-> "OtherController", name |-> "other", raises |-> FALSE],
                   [cls |-> "PlainController", name |-> "plain", raises |-> FALSE]>>]

F_control ==
    [broken |-> FALSE,
     members |-> <<[cls |-> "ControlController", name |-> "control", raises |-> FALSE]>>]

ServerFiles == {F_haproxy, F_others, F_control}

MalformedBody == [kind |-> "malformed", action |-> ""]

ServerBodies == {EmptyBody, OtherBody, MalformedBody, ActionBody("ready"), ActionBody("bogus")}

ServerOutcomes ==
    {[kind |-> "ok", response |-> <<>>], [kind |-> "timeout", response |-> <<>>]}

GetRequests ==
    { <<"api", "v1", "haproxy", "backends">>,
      <<"api", "v1", "haproxy", "backends", "w", "servers">>,
      <<"api", "v1", "haproxy">>,
      <<"api", "v1", "plain", "x">>,
      <<"api", "v1", "other", "x">>,
      <<"api", "v1", "control", "haproxy", "backends">>,
      <<"api", "v1", "nope", "x">>,
      <<"api", "v1">>,
      <<"api", "v2", "haproxy", "backends">>,
      <<"health">> }

PostRequests ==
    { <<"api", "v1", "haproxy", "backends", "w", "servers", "s", "action">>,
      <<"api", "v1", "haproxy", "backends", "w", "servers", "s">>,
      <<"api", "v1", "control", "haproxy", "backends", "w", "servers", "s", "action">>,
      <<"api", "v1", "control", "other", "x">>,
      <<"api", "v1", "control", "nope", "x">>,
      <<"api", "v1", "control">>,
      <<"api", "v1", "other", "x", "y">>,
      <<"api", "v1", "plain", "x">>,
      <<"api", "v1", "nope", "x">>,
      <<"api", "v2", "haproxy", "x">>,
      <<"api", "v1">> }

ServerInit ==
    /\ LET made == NewClient(T_unix, 5, "socket")
       IN  /\ HAPROXY_INSTANCES = S_default \o <<":">> \o T_unix
           /\ HAPROXY_TIMEOUT = 5
           /\ clients = <<[name |-> S_default, id |-> 1, client |-> made.client]>>
           /\ attempts = <<Attempt(S_default, T_unix, made, 1, TRUE)>>
    /\ pc = "serving"
    /\ pending = <<>>
    /\ last = NoRequest
    /\ ClientIdle
    /\ TransportIdle
    /\ DiscoveryIdle
    /\ ServerIdle
    /\ controller_files \in SeqsOf(ServerFiles, 0, MaxFiles)
    /\ next_file = 1
    /\ controllers = <<>>
    /\ log = <<>>

\* a GET request after startup
ServeGet ==
    /\ next_file = 0
    /\ http.op = "none"
    /\ \E parts \in GetRequests, raises \in BOOLEAN, outcome \in ServerOutcomes :
       \E r \in {DoGet(controllers, clients, parts, outcome, raises)} :
             /\ http' = [op |-> "GET", parts |-> parts, body |-> NoBody,
                         status |-> r.status, error |-> r.error, env |-> r.env,
                         invoked |-> r.invoked, sent |-> r.sent]
             /\ controllers' = r.controllers
    /\ UNCHANGED <<controller_files, next_file, log, ctlVars, cliVars, trVars, dscVars>>

\* a POST request after startup
ServePost ==
    /\ next_file = 0
    /\ http.op = "none"
    /\ \E parts \in PostRequests, body \in ServerBodies, raises \in BOOLEAN,
          outcome \in ServerOutcomes :
       \E r \in {DoPost(controllers, clients, parts, body, outcome, raises)} :
             /\ http' = [op |-> "POST", parts |-> parts, body |-> body,
                         status |-> r.status, error |-> r.error, env |-> r.env,
                         invoked |-> r.invoked, sent |-> r.sent]
             /\ controllers' = r.controllers
    /\ UNCHANGED <<controller_files, next_file, log, ctlVars, cliVars, trVars, dscVars>>

\* list_controllers or has_controller is called
AskManager ==
    /\ next_file = 0
    /\ http.op = "none"
    /\ \E method \in {"list_controllers", "has_controller"}, name \in {"haproxy", "nope"} :
         LET r == IF method = "list_controllers" THEN ListControllers(controllers)
                  ELSE HasController(controllers, name)
         IN  /\ http' = [NoExchange EXCEPT !.op = method, !.env = <<r.value>>]
             /\ controllers' = r.controllers
    /\ UNCHANGED <<controller_files, next_file, log, ctlVars, cliVars, trVars, dscVars>>

\* the answer has been written
Answered ==
    /\ http.op # "none"
    /\ http' = NoExchange
    /\ UNCHANGED <<ctlVars, cliVars, trVars, mgrVars, dscVars>>

ServerNext ==
    \/ LoadFile
    \/ LoadControllersDone
    \/ ServeGet
    \/ ServePost
    \/ AskManager
    \/ Answered

ServerSpec == ServerInit /\ [][ServerNext]_vars

(***************************************************************************)
(* TransportSpec: _send_command statement by statement, run by the threads *)
(* of the HTTP layer against one client.  A byte is "a" (ASCII), or one of *)
(* "xC3", "xA9", which together encode one two-byte character.             *)
(***************************************************************************)
Commands == {<<"show info">>, <<"show stat">>}

ByteChunks == {<<"a", "xC3">>, <<"xA9">>}

\* bytes.decode('utf-8'): ok = FALSE stands for UnicodeDecodeError
RECURSIVE DecodeUtf8(_)
DecodeUtf8(bytes) ==
    IF bytes = <<>> THEN [ok |-> TRUE, text |-> <<>>]
    ELSE IF bytes[1] = "xC3"
    THEN IF Len(bytes) >= 2 /\ bytes[2] = "xA9"
         THEN LET rest == DecodeUtf8(SubSeq(bytes, 3, Len(bytes)))
              IN  [ok |-> rest.ok, text |-> <<"e'">> \o rest.text]
         ELSE [ok |-> FALSE, text |-> <<>>]
    ELSE IF bytes[1] = "xA9"
    THEN [ok |-> FALSE, text |-> <<>>]
    ELSE LET rest == DecodeUtf8(Tail(bytes))
         IN  [ok |-> rest.ok, text |-> <<bytes[1]>> \o rest.text]

\* f"{command}\n".encode('utf-8')
Payload(cmd) == [line |-> cmd, end |-> "\n"]

\* the statement `finally: sock.close()` mutated to close on return only
FinallyOnReturnOnly(S, s, t, raising) ==
    IF raising
    THEN S
    ELSE [S EXCEPT ![s].state = "closed", ![s].wire = <<>>,
                   ![s].users = S[s].users \cup {t}]

\* `finally: sock.close()` (lines 186-188) by thread t on socket s, whether
\* the try block returned or raised; a closed socket holds no bytes
Finally(S, s, t, raising) ==
    [S EXCEPT ![s].state = "closed", ![s].wire = <<>>,
              ![s].users = S[s].users \cup {t}]

TransportInit ==
    /\ ControllerIdle
    /\ \E socket_path \in SocketPaths :
         /\ NewClient(socket_path, HAPROXY_TIMEOUT, "socket").ok
         /\ client = NewClient(socket_path, HAPROXY_TIMEOUT, "socket").client
    /\ ret = NoCall
    /\ TransportIdle
    /\ ManagerIdle
    /\ DiscoveryIdle
    /\ ServerIdle

\* a thread enters _send_command
Call(t) ==
    /\ at[t] = "idle"
    /\ \E cmd \in Commands : command' = [command EXCEPT ![t] = cmd]
    /\ at' = [at EXCEPT ![t] = "create"]
    /\ UNCHANGED <<sock, response, result, sockets, ctlVars, cliVars, mgrVars, dscVars, srvVars>>

\* lines 149-162: socket.socket(...) and sock.settimeout(self.timeout); a
\* negative timeout is a ValueError, which line 200 turns into
\* HAProxyCommandError with the socket made but never connected
CreateSocket(t) ==
    /\ at[t] = "create"
    /\ IF client.socket_type \notin {"unix", "tcp4"}
       THEN /\ result' = [result EXCEPT ![t] =
                            [exc |-> "HAProxyCommandError", value |-> <<>>,
                             message |-> "unexpected"]]
            /\ at' = [at EXCEPT ![t] = "done"]
            /\ UNCHANGED <<sock, sockets>>
       ELSE /\ sockets' = [sockets EXCEPT ![t] = [NoSocket EXCEPT !.state = "created"]]
            /\ sock' = [sock EXCEPT ![t] = t]
            /\ IF client.timeout < 0
               THEN /\ result' = [result EXCEPT ![t] =
                                    [exc |-> "HAProxyCommandError", value |-> <<>>,
                                     message |-> "unexpected"]]
                    /\ at' = [at EXCEPT ![t] = "done"]
               ELSE /\ at' = [at EXCEPT ![t] = "connect"]
                    /\ UNCHANGED result
    /\ UNCHANGED <<command, response, ctlVars, cliVars, mgrVars, dscVars, srvVars>>

\* line 166: sock.connect(connect_address) returns
Connect(t) ==
    /\ at[t] = "connect"
    /\ sockets' = [sockets EXCEPT ![sock[t]].state = "connected",
                                  ![sock[t]].connects = @ + 1,
                                  ![sock[t]].users = @ \cup {t}]
    /\ at' = [at EXCEPT ![t] = "send"]
    /\ UNCHANGED <<command, sock, response, result, ctlVars, cliVars, mgrVars, dscVars, srvVars>>

\* lines 170-174: sock.sendall(...) returns; response = b""
Send(t) ==
    /\ at[t] = "send"
    /\ sockets' = [sockets EXCEPT ![sock[t]].sent = Append(@, Payload(command[t])),
                                  ![sock[t]].users = @ \cup {t}]
    /\ response' = [response EXCEPT ![t] = <<>>]
    /\ at' = [at EXCEPT ![t] = "recv"]
    /\ UNCHANGED <<command, sock, result, ctlVars, cliVars, mgrVars, dscVars, srvVars>>

\* lines 176-179 with the buffer kept in one place for all threads
RecvShared(t) ==
    /\ at[t] = "recv"
    /\ Len(sockets[sock[t]].wire) < MaxChunks
    /\ \E chunk \in ByteChunks :
         /\ sockets' = [sockets EXCEPT ![sock[t]].wire = Append(@, chunk),
                                       ![sock[t]].users = @ \cup {t}]
         /\ response' = [u \in Threads |->
                           IF at[u] = "recv" THEN response[u] \o chunk ELSE response[u]]
    /\ UNCHANGED <<at, command, sock, result, ctlVars, cliVars, mgrVars, dscVars, srvVars>>

\* lines 176-179: sock.recv(4096) returns a non-empty chunk, which the peer
\* sent on this thread's connection; response += chunk
Recv(t) ==
    /\ at[t] = "recv"
    /\ Len(sockets[sock[t]].wire) < MaxChunks
    /\ \E chunk \in ByteChunks :
         /\ sockets' = [sockets EXCEPT ![sock[t]].wire = Append(@, chunk),
                                       ![sock[t]].users = @ \cup {t}]
         /\ response' = [response EXCEPT ![t] = @ \o chunk]
    /\ UNCHANGED <<at, command, sock, result, ctlVars, cliVars, mgrVars, dscVars, srvVars>>

\* lines 176-188 and 200-203: recv returns b"" (the peer closed), the
\* response is decoded, the socket is closed, and the text is returned, or
\* the UnicodeDecodeError is raised as HAProxyCommandError; the buffer is a
\* local of the call and goes with it
RecvEOF(t) ==
    /\ at[t] = "recv"
    /\ LET decoded == DecodeUtf8(response[t])
       IN  /\ result' = [result EXCEPT ![t] =
                           IF decoded.ok
                           THEN [exc |-> "none", value |-> decoded.text, message |-> ""]
                           ELSE [exc |-> "HAProxyCommandError", value |-> <<>>,
                                 message |-> "unexpected"]]
           /\ sockets' = Finally(sockets, sock[t], t, ~decoded.ok)
    /\ at' = [at EXCEPT ![t] = "done"]
    /\ response' = [response EXCEPT ![t] = <<>>]
    /\ UNCHANGED <<command, sock, ctlVars, cliVars, mgrVars, dscVars, srvVars>>

\* lines 186-198 with a class of its own raised for socket.timeout
FailsTimeoutError(t) ==
    /\ at[t] \in {"connect", "send", "recv"}
    /\ \E kind \in {"timeout", "socket_error"} :
         result' = [result EXCEPT ![t] =
                      [exc |-> IF kind = "timeout" THEN "HAProxyTimeoutError"
                               ELSE "HAProxyConnectionError",
                       value |-> <<>>, message |-> kind]]
    /\ sockets' = Finally(sockets, sock[t], t, TRUE)
    /\ at' = [at EXCEPT ![t] = "done"]
    /\ response' = [response EXCEPT ![t] = <<>>]
    /\ UNCHANGED <<command, sock, ctlVars, cliVars, mgrVars, dscVars, srvVars>>

\* lines 186-198: connect, sendall or recv raises socket.timeout or another
\* socket.error; the socket is closed and HAProxyConnectionError raised, with
\* a message that begins differently for the two ("timeout": line 191,
\* "socket_error": line 196)
Fails(t) ==
    /\ at[t] \in {"connect", "send", "recv"}
    /\ \E kind \in {"timeout", "socket_error"} :
         result' = [result EXCEPT ![t] =
                      [exc |-> "HAProxyConnectionError", value |-> <<>>,
                       message |-> kind]]
    /\ sockets' = Finally(sockets, sock[t], t, TRUE)
    /\ at' = [at EXCEPT ![t] = "done"]
    /\ response' = [response EXCEPT ![t] = <<>>]
    /\ UNCHANGED <<command, sock, ctlVars, cliVars, mgrVars, dscVars, srvVars>>

\* the caller has taken the result; a socket that is not an open connection
\* is released
Return(t) ==
    /\ at[t] = "done"
    /\ at' = [at EXCEPT ![t] = "idle"]
    /\ command' = [command EXCEPT ![t] = <<>>]
    /\ sock' = [sock EXCEPT ![t] = 0]
    /\ result' = [result EXCEPT ![t] = NoResult]
    /\ sockets' = [sockets EXCEPT ![t] =
                     IF @.state = "connected" THEN @ ELSE NoSocket]
    /\ UNCHANGED <<response, ctlVars, cliVars, mgrVars, dscVars, srvVars>>

TransportNext ==
    \E t \in Threads :
      \/ Call(t)
      \/ CreateSocket(t)
      \/ Connect(t)
      \/ Send(t)
      \/ Recv(t)
      \/ RecvEOF(t)
      \/ Fails(t)
      \/ Return(t)

TransportSpec == TransportInit /\ [][TransportNext]_vars

(***************************************************************************)
(* Claims.                                                                 *)
(***************************************************************************)

\* C1: set_server_state with a state outside {ready, drain, maint} raises the
\* local ValueError and hands nothing to the transport.
C1_InvalidStateNoTransport ==
    (ret.op = "set_server_state" /\ ret.state \notin {"ready", "drain", "maint"})
      => (ret.result.exc = "ValueError" /\ ret.result.sent = <<>>)

C1_Witness ==
    /\ ret.op = "set_server_state"
    /\ ret.state = "bogus"
    /\ ret.result.exc = "ValueError"

\* the response is non-empty and holds "error" or "invalid" in any case
MarksFailure(text) ==
    /\ text # <<>>
    /\ \E word \in {S_error, S_invalid} :
         \E i \in 1..Len(text) :
           /\ i + Len(word) - 1 <= Len(text)
           /\ \A j \in 1..Len(word) : LowerChar(text[i + j - 1]) = word[j]

\* C2: when the exchange succeeds, set_server_state with a valid state raises
\* HAProxyCommandError exactly when the response is non-empty and holds
\* "error" or "invalid" in any case, and returns True otherwise.
C2_CommandErrorIffMarker ==
    ( /\ ret.op = "set_server_state"
      /\ ret.state \in {"ready", "drain", "maint"}
      /\ client.timeout >= 0
      /\ ret.outcome.kind = "ok" )
      => /\ (ret.result.exc = "HAProxyCommandError") <=> MarksFailure(ret.outcome.response)
         /\ (ret.result.exc = "none" /\ ret.result.value) <=> ~MarksFailure(ret.outcome.response)

C2_Witness ==
    /\ ret.op = "set_server_state"
    /\ client.timeout >= 0
    /\ ret.outcome.kind = "ok"
    /\ ret.outcome.response = <<"I", "N", "V", "a", "l", "i", "d">>
    /\ ret.result.exc = "HAProxyCommandError"

\* a state-change request whose body and path are valid and whose instance
\* resolved, so that the command went to the transport
StateChangeSent == last.op = "handle_action" /\ last.sent # <<>>

\* C3 (as claimed): a connectivity failure of the transport is answered 503
\* and an in-band rejection by HAProxy 502.
C3_DistinctStatusClasses ==
    StateChangeSent =>
      /\ last.outcome.kind \in {"timeout", "refused"} => last.env.status_code = 503
      /\ (last.outcome.kind = "ok" /\ MarksFailure(last.outcome.response))
           => last.env.status_code = 502

UnnamedAmongSeveral ==
    /\ last.op = "_get_client"
    /\ ~last.instance_name.some
    /\ Len(clients) >= 2
    /\ ~HasKey(clients, S_default)

\* C4 (as claimed): resolve(None) raises when two or more instances are
\* registered and none is named "default".
C4_DisambiguationError == UnnamedAmongSeveral => last.found.exc = "ValueError"

\* C4 (amended): resolve(None) with two or more instances registered and none
\* named "default" raises nothing and returns the instance registered first.
C4_FirstRegistered ==
    UnnamedAmongSeveral => (last.found.exc = "none" /\ last.found.entry = 1)

C4_Witness == UnnamedAmongSeveral /\ clients[1].id # clients[2].id

\* C5: resolve(None) returns the instance named "default" whenever one is
\* registered, whatever else is registered and in whatever order; the sole
\* instance when exactly one is registered under another name; and fails when
\* none is registered.
C5_DefaultResolution ==
    (last.op = "_get_client" /\ ~last.instance_name.some) =>
      /\ HasKey(clients, S_default) =>
           /\ last.found.exc = "none"
           /\ last.found.entry \in 1..Len(clients)
           /\ clients[last.found.entry].name = S_default
      /\ (Len(clients) = 1 /\ ~HasKey(clients, S_default)) =>
           (last.found.exc = "none" /\ last.found.entry = 1)
      /\ clients = <<>> => last.found.exc = "ValueError"

C5_Witness ==
    /\ last.op = "_get_client"
    /\ ~last.instance_name.some
    /\ Len(clients) = 2
    /\ clients[1].name # S_default
    /\ clients[2].name = S_default

\* C6: resolve(name) with a non-empty name returns the client registered under
\* exactly that name, and for a name not registered raises the not-found
\* error that lists the registered names; it falls back to no other instance.
C6_NamedLookupExact ==
    (last.op = "_get_client" /\ ~Falsy(last.instance_name)) =>
      IF \E i \in 1..Len(clients) : clients[i].name = last.instance_name.str
      THEN /\ last.found.exc = "none"
           /\ last.found.entry \in 1..Len(clients)
           /\ clients[last.found.entry].name = last.instance_name.str
      ELSE /\ last.found.exc = "ValueError"
           /\ last.found.error = "not_found"
           /\ last.found.available = [i \in 1..Len(clients) |-> clients[i].name]

C6_Witness ==
    /\ last.op = "_get_client"
    /\ last.instance_name = Some(<<"z">>)
    /\ HasKey(clients, S_default)
    /\ Len(clients) = 2
    /\ last.found.error = "not_found"

\* The grammar config.py documents for HAPROXY_INSTANCES: one bare
\* address-spec, or comma-separated name=address-spec pairs.
IsBareSpec(config) == config # <<>> /\ ~HasChar(config, "=") /\ ~HasChar(config, ",")

IsPairList(config) ==
    LET pairs == Split(config, ",")
    IN  \A i \in 1..Len(pairs) : HasChar(pairs[i], "=")

\* the instances that grammar makes of a configuration
Documented(config) ==
    IF IsBareSpec(config)
    THEN <<[name |-> S_default, socket_path |-> config]>>
    ELSE LET pairs == Split(config, ",")
         IN  [i \in 1..Len(pairs) |->
                LET k == FirstIndex(pairs[i], "=")
                IN  [name |-> Slice(pairs[i], 1, k - 1),
                     socket_path |-> Slice(pairs[i], k + 1, Len(pairs[i]))]]

\* the instances the controller attempted
Attempted ==
    [i \in 1..Len(attempts) |->
       [name |-> attempts[i].name, socket_path |-> attempts[i].socket_path]]

\* C7 (as claimed): once the registry is built, the instances attempted are
\* those of the documented grammar: each name=address-spec pair under its
\* name, a bare address-spec as "default" with the whole string as address.
C7_DocumentedGrammar ==
    ( /\ pc = "serving"
      /\ IsBareSpec(HAPROXY_INSTANCES) \/ IsPairList(HAPROXY_INSTANCES) )
      => Attempted = Documented(HAPROXY_INSTANCES)

\* every registered client was built by an attempt that parsed, validated and
\* answered its one health check with true
RegistryHealthy ==
    /\ \A i \in 1..Len(clients) :
         /\ clients[i].id \in 1..Len(attempts)
         /\ attempts[clients[i].id].name = clients[i].name
         /\ attempts[clients[i].id].parsed
         /\ attempts[clients[i].id].validated
         /\ attempts[clients[i].id].healthy
    /\ \A k \in 1..Len(attempts) :
         /\ attempts[k].probes <= 1
         /\ ~(attempts[k].parsed /\ attempts[k].validated /\ attempts[k].healthy)
              => \A i \in 1..Len(clients) : clients[i].id # k

\* C8: every name of the registry belongs to a client whose address parsed,
\* whose socket validated and whose startup health check answered true; an
\* instance that failed is absent, and once the controller serves requests no
\* instance is probed or registered any more.
C8_OnlyHealthyRegistered ==
    /\ []RegistryHealthy
    /\ [][pc = "serving" =>
            /\ clients' = clients
            /\ attempts' = attempts
            /\ \A i \in 1..Len(last'.sent) : last'.sent[i][1] # "show info"]_vars

C8_Witness ==
    /\ pc = "serving"
    /\ Len(attempts) = 2
    /\ attempts[1].validated /\ ~attempts[1].healthy
    /\ Len(clients) = 1
    /\ clients[1].id = 2
    /\ StateChangeSent

\* C9: a call of _send_command opens at most one connection, and when it has
\* returned or raised, whatever the outcome, that connection is closed.
C9_ConnectionClosed ==
    \A t \in Threads :
      /\ sockets[t].connects <= 1
      /\ at[t] \in {"done", "idle"} => sockets[t].state # "connected"

C9_Witness ==
    \E t \in Threads :
      /\ at[t] = "done"
      /\ result[t].exc = "HAProxyConnectionError"
      /\ result[t].message = "timeout"
      /\ sockets[t].connects = 1
      /\ sockets[t].sent # <<>>
      /\ sockets[t].state = "closed"

\* each thread's connection is used by that thread alone, carries at most its
\* one command, and holds the bytes the thread has gathered so far
OwnConnection ==
    \A t \in Threads :
      /\ sock[t] \in {0, t}
      /\ sockets[t].users \subseteq {t}
      /\ Len(sockets[t].sent) <= 1
      /\ sockets[t].sent # <<>> => sockets[t].sent[1] = Payload(command[t])
      /\ at[t] = "recv" => response[t] = Concat(sockets[t].wire)

\* C10: when several operations run at once against one client, each uses
\* its own connection carrying exactly one command, its result is computed
\* from the bytes received on that connection alone, and nothing changes the
\* client's address, type or timeout.
C10_NoInterference ==
    /\ []OwnConnection
    /\ [][ /\ client' = client
           /\ \A t \in Threads :
                (at[t] = "recv" /\ at'[t] = "done" /\ result'[t].exc = "none")
                  => /\ DecodeUtf8(Concat(sockets[t].wire)).ok
                     /\ result'[t].value = DecodeUtf8(Concat(sockets[t].wire)).text
         ]_vars

C10_Witness ==
    /\ at[1] = "recv"
    /\ at[2] = "recv"
    /\ command[1] # command[2]
    /\ response[1] # <<>>
    /\ response[2] # <<>>
    /\ response[1] # response[2]

\* a thread's call has ended in the failure of the given kind
FailedWith(t, kind) == at[t] = "done" /\ result[t].message = kind

\* C11 as stated: a request that runs into the timeout raises an error of
\* another kind than the one raised for any other transport failure.
C11_TimeoutDistinguished ==
    \A t, u \in Threads :
      (FailedWith(t, "timeout") /\ FailedWith(u, "socket_error"))
        => result[t].exc # result[u].exc

\* C11, amended: a request that runs into the timeout at connect, send or
\* receive raises HAProxyConnectionError, the class raised for every other
\* socket failure as well; the two differ in the message text only.
C11_TimeoutIsConnectionError ==
    /\ [](\A t \in Threads :
            (FailedWith(t, "timeout") \/ FailedWith(t, "socket_error"))
              => result[t].exc = "HAProxyConnectionError")
    /\ [][\A t \in Threads :
            (at[t] \in {"connect", "send", "recv"} /\ at'[t] = "done"
               /\ result'[t].exc # "none" /\ result'[t].message # "unexpected")
              => /\ result'[t].exc = "HAProxyConnectionError"
                 /\ result'[t].message \in {"timeout", "socket_error"}
         ]_vars

C11_Witness ==
    /\ FailedWith(1, "timeout")
    /\ FailedWith(2, "socket_error")
    /\ sockets[1].sent # <<>>
    /\ result[1].exc = result[2].exc
    /\ result[1].message # result[2].message

\* the operation of the client whose result ret holds has failed
CallFailed ==
    \/ ret.result.exc # "none"
    \/ ret.op = "health_check" /\ ret.result.value = FALSE

\* C12: one invocation of a client operation hands at most one command to
\* the transport, and when that request fails the operation reports the
\* failure and asks no second time; the same for one handle_get or
\* handle_action call.
C12_NoRetries ==
    /\ ret.op # "none" =>
         /\ Len(ret.result.sent) <= 1
         /\ ret.outcome.kind \in FailureKinds =>
              Len(ret.result.sent) = 1 /\ CallFailed
    /\ last.op \in {"handle_get", "handle_action"} =>
         /\ Len(last.sent) <= 1
         /\ last.outcome.kind \in FailureKinds =>
              Len(last.sent) = 1 /\ ~last.env.success

C12_Witness ==
    /\ last.op = "handle_get"
    /\ last.path = <<S_backends>>
    /\ last.outcome.kind = "timeout"
    /\ clients[last.served].client.timeout > 0
    /\ last.sent = << <<"show stat">> >>
    /\ last.env.status_code = 503

\* a state change with a valid action on a well-formed path reached the load
\* balancer of a registered instance, which answered
StateChangeAnswered ==
    /\ last.op = "handle_action"
    /\ last.body.kind = "action"
    /\ InList(last.body.action, VALID_STATES)
    /\ \E b \in BackendNames, sv \in ServerNames :
         \/ last.path = WellFormedPath(b, sv)
         \/ \E i \in InstanceArgs : last.path = <<i>> \o WellFormedPath(b, sv)
    /\ last.served # 0
    /\ last.outcome.kind = "ok"

\* C13: such a request yields success = true with status 200 when the answer
\* is empty, and success = false with status 502 when the answer contains
\* "Invalid" or "error".
C13_EndToEnd ==
    StateChangeAnswered =>
      /\ last.outcome.response = <<>> =>
           last.env.success /\ last.env.status_code = 200
      /\ (\/ Contains(last.outcome.response, <<"I", "n", "v", "a", "l", "i", "d">>)
          \/ Contains(last.outcome.response, S_error)) =>
           ~last.env.success /\ last.env.status_code = 502

C13_Witness ==
    /\ StateChangeAnswered
    /\ last.body.action = "drain"
    /\ last.outcome.response =
         <<"I", "n", "v", "a", "l", "i", "d", " ", "s", "e", "r", "v", "e", "r", ".">>
    /\ last.env.status_code = 502

\* the path has the shape [instance/]backends/{backend}/servers/{server}/action
WellShaped(path) ==
    \/ /\ Len(path) = 5
       /\ path[1] = S_backends /\ path[3] = S_servers /\ path[5] = S_action
    \/ /\ Len(path) = 6
       /\ path[2] = S_backends /\ path[4] = S_servers /\ path[6] = S_action

\* C14: handle_action with no valid action in the body, or with a path of
\* another shape, returns a 400 error envelope and hands nothing to the
\* transport.
C14_MalformedRequest400 ==
    (/\ last.op = "handle_action"
     /\ \/ last.body.kind # "action"
        \/ ~InList(last.body.action, VALID_STATES)
        \/ ~WellShaped(last.path))
      => /\ ~last.env.success
         /\ last.env.status_code = 400
         /\ last.sent = <<>>

C14_Witness ==
    /\ last.op = "handle_action"
    /\ last.body = ActionBody("ready")
    /\ last.path = <<S_backends, <<"w">>, S_servers, <<"s">>, S_servers>>
    /\ HasKey(clients, S_default)
    /\ last.env.status_code = 400
    /\ last.sent = <<>>

\* a non-empty string of the digits 0 to 9
IsDecimal(text) == text # <<>> /\ \A i \in 1..Len(text) : text[i] \in Digits

\* what follows "ipv4@" in the argument of the constructor
AfterPrefix == Slice(ret.socket_path, 6, Len(ret.socket_path))

\* the text after the last ":" of what follows "ipv4@"
PortText == Slice(AfterPrefix, LastIndex(AfterPrefix, ":") + 1, Len(AfterPrefix))

\* C15: for "ipv4@host:port" with a decimal port in 1..65535 the parse
\* yields the TCP address of the host before the last ":" and that port; with
\* a port out of range, a port that is not a decimal number, or no ":", it
\* fails, and nothing is sent.
C15_PortParsing ==
    (ret.op = "__init__" /\ StartsWith(ret.socket_path, S_ipv4)) =>
      IF /\ HasChar(AfterPrefix, ":")
         /\ IsDecimal(PortText)
         /\ DecimalValue(PortText) \in PortMin..PortMax
      THEN /\ ret.address.ok
           /\ ret.address.type = "tcp4"
           /\ ret.address.host =
                Slice(AfterPrefix, 1, LastIndex(AfterPrefix, ":") - 1)
           /\ ret.address.port = DecimalValue(PortText)
      ELSE /\ ~ret.address.ok
           /\ ret.result.exc = "HAProxyConnectionError"
           /\ ret.result.sent = <<>>

\* the string has no whitespace at either end
IsStripped(text) ==
    text = <<>> \/ (text[1] \notin Whitespace /\ text[Len(text)] \notin Whitespace)

\* the string is a path as pathlib writes one: not empty; "." alone or no
\* "." component; at most two "/" in front; after them no empty component
IsNormalPath(text) ==
    /\ text # <<>>
    /\ text = <<".">> \/ \A i \in 1..Len(Split(text, "/")) : Split(text, "/")[i] # <<".">>
    /\ \A i \in 1..(Len(text) - 1) :
         (text[i] = "/" /\ text[i+1] = "/") => (i = 1 /\ (Len(text) = 2 \/ text[3] # "/"))
    /\ text[Len(text)] = "/" => \A i \in 1..Len(text) : text[i] = "/"

\* C16 as stated: a string that does not start with "ipv4@" parses to the
\* Unix address whose path is the string itself.
C16_UnixPathUnchanged ==
    (ret.op = "__init__" /\ ~StartsWith(ret.socket_path, S_ipv4)) =>
      /\ ret.address.ok
      /\ ret.address.type = "unix"
      /\ ret.address.path = ret.socket_path

\* C16, amended: a string that does not start with "ipv4@" once the
\* whitespace around it is removed parses to a Unix address whose path has
\* no whitespace around it and is in pathlib's normal form; the path is the
\* original string exactly when that string was such already.
C16_UnixPathNormalised ==
    (ret.op = "__init__" /\ ~StartsWith(Strip(ret.socket_path), S_ipv4)) =>
      /\ ret.address.ok
      /\ ret.address.type = "unix"
      /\ IsStripped(ret.address.path)
      /\ IsNormalPath(ret.address.path)
      /\ ret.address.path = ret.socket_path
           <=> (IsStripped(ret.socket_path) /\ IsNormalPath(ret.socket_path))

C16_Witness ==
    /\ ret.op = "__init__"
    /\ ret.socket_path = <<" ", "/", "x">>
    /\ ret.address.type = "unix"
    /\ ret.address.path = <<"/", "x">>
    /\ ret.fs = "socket"
    /\ client.path = <<"/", "x">>

\* the rows of the stats table that the call in ret was answered with
StatsOf == ParseCsvResponse(ret.outcome.response)

\* the k-th smallest member of a set of numbers
Kth(S, k) == CHOOSE i \in S : Cardinality({j \in S : j <= i}) = k

\* C17: get_backends returns the pxname of the rows whose svname is BACKEND,
\* each once, in lexicographic order, and nothing else.
C17_ListBackends ==
    (ret.op = "get_backends" /\ ret.result.exc = "none") =>
      /\ Range(ret.result.value) =
           {DictGet(StatsOf[i], S_pxname) :
              i \in {j \in 1..Len(StatsOf) : DictGet(StatsOf[j], S_svname) = S_BACKEND}}
      /\ \A i, j \in 1..Len(ret.result.value) :
           i < j => StrLess(ret.result.value[i], ret.result.value[j])

C17_Witness ==
    /\ ret.op = "get_backends"
    /\ ret.result.exc = "none"
    /\ Len(StatsOf) = 3
    /\ DictGet(StatsOf[1], S_pxname) = <<"w">>
    /\ DictGet(StatsOf[1], S_svname) = S_BACKEND
    /\ DictGet(StatsOf[2], S_svname) = <<"s">>
    /\ ret.result.value = << <<"a">>, <<"w">> >>

\* the places in the table of the servers of the backend asked for
ServerRows ==
    {i \in 1..Len(StatsOf) :
       /\ DictGet(StatsOf[i], S_pxname) = ret.backend_name
       /\ DictGet(StatsOf[i], S_svname) # S_BACKEND
       /\ DictGet(StatsOf[i], S_svname) # S_FRONTEND}

\* C18: get_backend_servers(b) returns one record for each row whose pxname
\* is b and whose svname is neither BACKEND nor FRONTEND, in table order, and
\* none for any other row.
C18_ListServers ==
    (ret.op = "get_backend_servers" /\ ret.result.exc = "none") =>
      /\ Len(ret.result.value) = Cardinality(ServerRows)
      /\ \A k \in 1..Len(ret.result.value) :
           /\ ret.result.value[k][S_name] = DictGet(StatsOf[Kth(ServerRows, k)], S_svname)
           /\ ret.result.value[k][S_status] = DictGet(StatsOf[Kth(ServerRows, k)], S_status)

C18_Witness ==
    /\ ret.op = "get_backend_servers"
    /\ ret.result.exc = "none"
    /\ Len(StatsOf) = 3
    /\ ServerRows = {2}
    /\ DictGet(StatsOf[1], S_svname) = S_BACKEND
    /\ DictGet(StatsOf[3], S_pxname) = <<"a">>
    /\ DictGet(StatsOf[3], S_svname) = <<"s">>
    /\ Len(ret.result.value) = 1
    /\ ret.result.value[1][S_name] = <<"s">>

\* the lines of the answer, the names in its header, and the places of the
\* data lines that have as many fields as the header has names
AnswerLines == Split(Strip(ret.outcome.response), "\n")

HeaderNames == Headers(AnswerLines[1])

WellFormedLines ==
    {i \in 2..Len(AnswerLines) :
       /\ AnswerLines[i] # <<>>
       /\ AnswerLines[i][1] # "#"
       /\ Len(Split(AnswerLines[i], ",")) = Len(HeaderNames)}

\* C19: a data row with another number of fields than the header is dropped
\* and nothing is raised; the other data rows are returned in input order,
\* each as the mapping from the header names to the row's values.
C19_BadRowDropped ==
    (/\ ret.op \in {"get_backends", "get_backend_servers", "get_server_state"}
     /\ ret.outcome.kind = "ok"
     /\ client.timeout >= 0
     /\ StartsWith(ret.outcome.response, <<"#">>)) =>
      LET parsed == StatsOf
          lines == AnswerLines
          names == HeaderNames
          good == WellFormedLines
          fields == [i \in good |-> Split(lines[i], ",")]
      IN  /\ ret.result.exc = "none"
          /\ Len(parsed) = Cardinality(good)
          /\ \A k \in 1..Len(parsed) :
               /\ DOMAIN parsed[k] = Range(names)
               /\ \A h \in 1..Len(names) :
                    parsed[k][names[h]] = Strip(fields[Kth(good, k)][h])

C19_Witness ==
    /\ ret.op = "get_backends"
    /\ ret.result.exc = "none"
    /\ Len(AnswerLines) = 4
    /\ AnswerLines[3] = <<"w", ",", "t">>
    /\ WellFormedLines = {2, 4}
    /\ Len(StatsOf) = 2
    /\ DictGet(StatsOf[2], S_pxname) = <<"a">>
    /\ ret.result.value = << <<"a">>, <<"w">> >>

\* the classes the logger was told of as registered or as skipped
Named == {k \in 1..Len(log) : log[k].event \in {"loaded", "duplicate"}}

\* the first of them to report the name
FirstNamed(name) ==
    CHOOSE k \in Named : log[k].name = name /\ \A j \in Named : log[j].name = name => k <= j

\* C20: the names of the controller registry are unique; of the classes that
\* report one name the registry holds the instance made first and no other,
\* and an entry of the registry is never replaced.
C20_FirstRegistrationWins ==
    /\ [](\A i, j \in 1..Len(controllers) :
            controllers[i].name = controllers[j].name => i = j)
    /\ [](\A k \in Named :
            /\ Cardinality({i \in 1..Len(controllers) : controllers[i].name = log[k].name}) = 1
            /\ \A i \in 1..Len(controllers) :
                 controllers[i].name = log[k].name =>
                   controllers[i].instance = log[FirstNamed(log[k].name)].instance)
    /\ [][\A i \in 1..Len(controllers) :
            i <= Len(controllers') /\ controllers'[i] = controllers[i]]_vars

C20_Witness ==
    /\ next_file = 0
    /\ Len(controller_files) = 2
    /\ \E k \in Named :
         /\ log[k].event = "duplicate"
         /\ log[k].instance.file = 2
         /\ log[FirstNamed(log[k].name)].instance.file = 1
         /\ Cardinality({i \in 1..Len(controllers) : controllers[i].name = log[k].name}) = 1
    /\ \E k \in 1..Len(log) : log[k].event = "init_error"

\* C26: whatever state the server is in, the same as the one asked for
\* included, set_server_state with a valid state hands the transport the one
\* command "set server <backend>/<server> state <state>" and nothing before
\* it, and what it returns or raises follows from the answer to that command.
C26_Unconditional ==
    (ret.op = "set_server_state" /\ ret.state \in {"ready", "drain", "maint"}) =>
      /\ ret.current \in ServerStates
      /\ ret.result.sent =
           << <<"set server", ret.backend_name, ret.server_name, ret.state>> >>
      /\ IF /\ ret.outcome.kind = "ok"
            /\ client.timeout >= 0
            /\ ~MarksFailure(ret.outcome.response)
         THEN ret.result.exc = "none" /\ ret.result.value
         ELSE ret.result.exc = "HAProxyCommandError"

C26_Witness ==
    /\ ret.op = "set_server_state"
    /\ ret.current = "drain"
    /\ ret.state = "drain"
    /\ Len(ret.result.sent) = 1
    /\ ret.outcome.kind = "ok"
    /\ ret.result.exc = "none"
    /\ ret.result.value

\* the names that follow the "#" of the first line of the answer
NamesAfterHash ==
    LET line == Split(Strip(ret.outcome.response), "\n")[1]
        names == Split(Slice(line, 2, Len(line)), ",")
    IN  [i \in 1..Len(names) |-> Strip(names[i])]

\* C27 (as claimed): when the first line of the answer to "show stat" begins
\* with "#", the field names of the parser are the names that follow the "#",
\* trimmed, whether a blank follows the "#" or not.
C27_HeaderNames ==
    (/\ ret.op \in {"get_backends", "get_backend_servers", "get_server_state"}
     /\ ret.outcome.kind = "ok"
     /\ StartsWith(ret.outcome.response, <<"#">>)) =>
      /\ HeaderNames = NamesAfterHash
      /\ \A k \in 1..Len(StatsOf) : DOMAIN StatsOf[k] = Range(NamesAfterHash)

\* C28 (as claimed): the `instance` of a success envelope is the name under
\* which the client that served the request is registered.
C28_InstanceReported ==
    (last.op \in {"handle_get", "handle_action"} /\ last.env.success) =>
      /\ last.served \in 1..Len(clients)
      /\ last.env.data.instance = clients[last.served].name

\* C29: what handle_get and handle_action return is always an envelope: a
\* boolean `success` and an integer `status_code`, success exactly with 200,
\* `data` without `error` on success and `error` without `data` otherwise;
\* an exception raised below them is answered with such an envelope too.
C29_EnvelopeShape ==
    (last.op \in {"handle_get", "handle_action"}) =>
      /\ {"success", "status_code"} \subseteq DOMAIN last.env
      /\ last.env.success \in BOOLEAN
      /\ last.env.status_code \in Int
      /\ last.env.success <=> last.env.status_code = 200
      /\ last.env.success => ("data" \in DOMAIN last.env /\ "error" \notin DOMAIN last.env)
      /\ ~last.env.success => ("error" \in DOMAIN last.env /\ "data" \notin DOMAIN last.env)

C29_Witness ==
    /\ last.op = "handle_get"
    /\ last.sent # <<>>
    /\ last.outcome.kind = "decode"
    /\ last.env.status_code = 500
    /\ "error" \in DOMAIN last.env

\* the discoverer classes of the plugin files that load: the file executes
\* and the constructor returns
Loadable ==
    {[file |-> f, cls |-> plugin_files[f].members[k].cls] :
       <<f, k>> \in {t \in (1..Len(plugin_files)) \X (1..2) :
                       /\ ~plugin_files[t[1]].broken
                       /\ t[2] <= Len(plugin_files[t[1]].members)
                       /\ ~plugin_files[t[1]].members[t[2]].raises}}

\* C21 (as claimed): a plugin file that raises while it is executed, or whose
\* discoverer raises while it is constructed, is skipped: the construction of
\* the manager goes on and every other discoverer is registered.
C21_LoadFailureSkipped ==
    /\ loading # "raised"
    /\ loading = "ready" => Loadable \subseteq Range(discoverers)

\* C22: run_discovery calls discover() of every registered discoverer once,
\* in the order of registration; whichever of them raise, nothing escapes and
\* the list returned is the lists of the others one after the other, each in
\* its own order.
C22_RunDiscovery ==
    (listing.op = "run_discovery") =>
      /\ listing.exc = "none"
      /\ listing.calls = [i \in 1..Len(discoverers) |-> i]
      /\ listing.apps =
           Concat([i \in 1..Len(discoverers) |->
                     IF i \in listing.raising THEN <<>>
                     ELSE AppsOf(i, discoverers[i].cls)])

C22_Witness ==
    /\ listing.op = "run_discovery"
    /\ Len(discoverers) = 3
    /\ listing.raising = {2}
    /\ listing.calls = <<1, 2, 3>>
    /\ listing.exc = "none"
    /\ Len(listing.apps) >= 3
    /\ listing.apps[1].name = <<1, 1>>
    /\ listing.apps[Len(listing.apps)].name[1] = 3

\* the sections of the application list a record appears in
SectionsWith(app) ==
    {key \in DOMAIN listing.sections :
       \E i \in 1..Len(listing.sections[key].applications) :
         listing.sections[key].applications[i] = app.name}

\* C30 (as claimed): every record run_discovery returned is in one section of
\* the application list and in one only, and the counts of the sections add
\* up to the number of records.
C30_EveryRecordListed ==
    (listing.op = "GET /app") =>
      /\ \A i \in 1..Len(listing.apps) : Cardinality(SectionsWith(listing.apps[i])) = 1
      /\ listing.sections["site-app"].count
           + (IF "docker-app" \in DOMAIN listing.sections
              THEN listing.sections["docker-app"].count ELSE 0)
         = Len(listing.apps)

\* the controller the registry holds under a name
Registered(name) == {i \in 1..Len(controllers) : controllers[i].name = name}

\* a request for /api/v1/{name}/...
ForController == Len(http.parts) >= 3 /\ SubSeq(http.parts, 1, 2) = <<"api", "v1">>

\* C23 (as claimed): a GET for a registered controller that does not define
\* handle_get is answered 405, which tells it from the 500 of a handle_get
\* that raises.
C23_NotImplementedDistinct ==
    (/\ http.op = "GET"
     /\ ForController
     /\ \E i \in Registered(http.parts[3]) : controllers[i].instance.cls = "PlainController")
      => /\ http.status = 405
         /\ http.invoked = <<>>

\* the one call of handle_action a POST makes for a name and the rest of the
\* path, or the 404 of a name that is not registered
Dispatched(name, rest) ==
    IF Registered(name) = {}
    THEN http.status = 404 /\ http.invoked = <<>>
    ELSE /\ Len(http.invoked) = 1
         /\ \E i \in Registered(name) : http.invoked[1].instance = controllers[i].instance
         /\ http.invoked[1].method = "handle_action"
         /\ http.invoked[1].path = rest
         /\ http.invoked[1].body = http.body

\* the body of the POST could be parsed
Parsed == http.op = "POST" /\ ForController /\ http.body.kind # "malformed"

\* C24 (as claimed): a POST to /api/v1/{name}/{rest} calls handle_action of
\* the controller registered under {name}, with {rest} and the body, and is
\* answered 404 without a call when there is none.
C24_DispatchByPathName ==
    Parsed => Dispatched(http.parts[3], Slice(http.parts, 4, Len(http.parts)))

\* C24: the same, where /api/v1/control/{name}/{rest} stands for
\* /api/v1/{name}/{rest}.
C24_DispatchByName ==
    Parsed =>
      IF http.parts[3] = "control" /\ Len(http.parts) >= 4
      THEN Dispatched(http.parts[4], Slice(http.parts, 5, Len(http.parts)))
      ELSE Dispatched(http.parts[3], Slice(http.parts, 4, Len(http.parts)))

C24_Witness ==
    /\ Parsed
    /\ http.parts[3] = "control"
    /\ Registered("control") # {}
    /\ Len(http.invoked) = 1
    /\ http.invoked[1].instance.cls = "HAProxyController"
    /\ http.invoked[1].path = <<"backends", "w", "servers", "s", "action">>
    /\ http.invoked[1].body = ActionBody("ready")
    /\ http.status = 200

\* C25: once the controllers are loaded, no request and no call of the
\* manager changes the controller registry or the instance registry, and the
\* files are not loaded again.
C25_RegistriesFrozen ==
    [][next_file = 0 =>
         /\ controllers' = controllers
         /\ clients' = clients
         /\ next_file' = 0
         /\ log' = log]_vars

C25_Witness ==
    /\ next_file = 0
    /\ Len(controllers) >= 2
    /\ Len(clients) = 1
    /\ http.op = "GET"
    /\ Len(http.invoked) = 1
    /\ http.invoked[1].instance.cls = "HAProxyController"
    /\ http.sent # <<>>
    /\ http.status = 200

====
